---- MODULE Spec2Model ----
(***************************************************************************)
(* Model of the archive storage engine of the nbs block store: BuildArchive *)
(* / archiveSingleBlockStore / convertTableFileToArchive (with the parallel *)
(* ungrouped pass), verifyAllChunks, the manifest swap and the purge, and   *)
(* the inverse UnArchive / unArchiveSingleBlockStore.                       *)
(*                                                                         *)
(* A chunk is identified with its hash (content addressing: one byte string *)
(* per hash), so the bytes of chunk h are the token h and hash(b) = b.      *)
(* Compressed bytes are tagged tokens that remember the dictionary they     *)
(* were compressed with; decompressing with another dictionary yields       *)
(* Garbage.                                                                 *)
(***************************************************************************)
EXTENDS Integers, Sequences, FiniteSets, TLC

\* ------------------------------------------------------------------ bounds
MaxHash == 4        \* chunk hashes are 1..MaxHash
MaxIdx == 3         \* longest index of an initial classic table file
MaxEntries == 4     \* index entries of all initial table files together
MaxRuns == 2        \* calls of BuildArchive / UnArchive in one behaviour
RawSize == 4        \* len(c.Data()) of a chunk
BigRaw == 6         \* len(c.Data()) of a larger chunk
DictCmpSize == 1    \* len(gozstd.Compress(nil, dict)) of every dictionary
MaxCmp == 2         \* compressed chunk sizes are 1..MaxCmp
MaxFaultLen == 2    \* I/O errors inside the parallel pass are drawn for tables of at most this many entries
MaxAdds == 4        \* distinct pairs given to ChunkRelations.Add in one behaviour

\* ------------------------------------------------- program constants (scaled)
minSamples == 2     \* const minSamples = 25
maxSamples == 3     \* const maxSamples = 1000
workerCount == 2    \* const workerCount = 32
padMin == 7         \* padSamples: for len(samples) < 7

Hashes == 1..MaxHash
Nil == 0             \* a nil chunk / nil data
Garbage == Nil - 1   \* bytes that are no chunk
Gens == {"newGen", "oldGen"}

VARIABLES
  manifest,   \* gen -> sequence of table specs [name, cnt] (the manifest)
  disk,       \* set of container files [g, name, spans, chunks]
  dagGroups,  \* ChunkRelations.groups(): set of sets of hashes
  isGen,      \* the chunk store handed to the call is a *GenerationalNBS
  cr,         \* the ChunkRelations: [manyToGroup : hash -> cell, heap : cell -> set of hashes]
  added,      \* the pairs ChunkRelations.Add was called with, as sets {a, b}
  sz,         \* sizes: [raw : Hashes -> len(c.Data()), grp, def : Hashes -> 1..MaxCmp]
  op,         \* "none" | "archive" | "unarchive"
  purge,      \* BuildArchive's purge argument
  runs,       \* calls made so far
  pc,         \* position of the calling goroutine
  gen,        \* the block store being processed: "newGen" or "oldGen"
  allFiles,   \* snapshot of the upstream table file names
  fi,         \* position in allFiles
  cancelled,  \* the caller's ctx is done
  ret,        \* what the last call returned
  progress,   \* set of diagnostics sent on the progress channel
  b,          \* locals of the build of the current container (cache: set of entries [h, chk])
  arcW,       \* the archiveWriter
  par,        \* channels and goroutines of compressChunksInParallel
  padIn,      \* padSamples: the list chks it was called with
  padOut,     \* padSamples: its local samples
  cas,        \* admin compare-and-swap-storage: its arguments [from, to]
  cmp,        \* admin debug-compare: the directories, the sources loaded, the report
  it          \* IterateAllChunksFast: the index, the position, the callback's calls

storeVars == <<manifest, disk>>
inVars == <<isGen, dagGroups, cr, added, sz, padIn, padOut, cas, cmp, it>>
callVars == <<op, purge, runs>>
loopVars == <<gen, allFiles, fi>>
vars == <<manifest, disk, isGen, dagGroups, cr, added, sz, op, purge, runs, pc, gen, allFiles, fi,
          cancelled, ret, progress, b, arcW, par, padIn, padOut,
          cas, cmp, it>>

\* ----------------------------------------------------------------- helpers
Range(s) == {s[i] : i \in 1..Len(s)}

Min(a, c) == IF a < c THEN a ELSE c

RECURSIVE SumOver(_, _)
SumOver(f, S) ==
  IF S = {} THEN 0
  ELSE LET x == CHOOSE y \in S : TRUE IN f[x] + SumOver(f, S \ {x})

\* every enumeration of the finite set S as a sequence without repetition
RECURSIVE Perms(_)
Perms(S) ==
  IF S = {} THEN {<<>>}
  ELSE UNION {{<<x>> \o p : p \in Perms(S \ {x})} : x \in S}

\* the index sequences of length len of a classic table file: indexes are kept
\* sorted by hash, and (hash names being arbitrary) use the hashes 1..k
RECURSIVE IdxSeqs(_)
IdxSeqs(len) ==
  IF len = 1 THEN {<<1>>}
  ELSE {Append(s, x) : s \in IdxSeqs(len - 1), x \in Hashes} \cap
       UNION {{Append(s, s[len - 1]), Append(s, Min(s[len - 1] + 1, MaxHash))} :
              s \in IdxSeqs(len - 1)}

\* ------------------------------------------------------- container addresses
\* A container address is the digest of what the file holds, modelled as that
\* content itself (an injective hash).  All addresses share one record shape.
TF(idx) == [k |-> "tf", idx |-> idx, origin |-> <<>>, lens |-> <<>>, chunks |-> <<>>]

Journal == [k |-> "journal", idx |-> <<>>, origin |-> <<>>, lens |-> <<>>, chunks |-> <<>>]

NoName == [k |-> "none", idx |-> <<>>, origin |-> <<>>, lens |-> <<>>, chunks |-> <<>>]

\* a command-line argument that is no container address ("invalid_id_1")
InvalidAddr == [k |-> "invalid", idx |-> <<>>, origin |-> <<>>, lens |-> <<>>, chunks |-> <<>>]

\* the arguments of admin compare-and-swap-storage before any call
NoArgs == [from |-> NoName, to |-> NoName]

\* admin debug-compare has not been run, IterateAllChunksFast has not been called
NoCmp == [st |-> "none"]

isJournalAddr(a) == a.k = "journal"

isArchive(a) == a.k = "darc"

TableSpec(name, cnt) == [name |-> name, cnt |-> cnt]

File(g, name, spans, chunks) == [g |-> g, name |-> name, spans |-> spans, chunks |-> chunks]

\* --------------------------------------------------------------- gozstd
\* A dictionary is identified by the samples it was trained on: how many times
\* each chunk occurs among them.
RECURSIVE Occurrences(_, _)
Occurrences(samples, h) ==
  IF samples = <<>> THEN 0
  ELSE (IF Head(samples) = h THEN 1 ELSE 0) + Occurrences(Tail(samples), h)

BuildDict(samples) == [h \in Hashes |-> Occurrences(samples, h)]

NoDict == [h \in Hashes |-> 0]

\* gozstd.Compress(nil, dict) of a dictionary
CompressDictionary(dict) == [t |-> "dict", d |-> dict, h |-> Nil]

\* gozstd.CompressDict(nil, data, cDict)
CompressDict(data, dict) == [t |-> "chunk", d |-> dict, h |-> data]

\* gozstd.Decompress of a dictionary span
DecompressDictionary(span) == IF span.t = "dict" THEN span.d ELSE NoDict

\* gozstd.DecompressDict: only the dictionary used to compress gives the data back
DecompressDict(span, dict) ==
  IF span.t = "chunk" /\ span.d = dict THEN span.h ELSE Garbage

\* the hash of a byte string (a chunk's bytes are the token of its hash)
HashOf(data) == data

\* -------------------------------------------------------------- blank values
B0 == [tf |-> NoName, idx |-> <<>>, cache |-> {}, defaultDict |-> NoDict,
       cgList |-> <<>>, gi |-> 0, defaultSpanId |-> 0, allChunks |-> {},
       groupCount |-> 0, grouped |-> 0, singles |-> 0, name |-> NoName,
       chkCnt |-> 0, purgeFile |-> NoName, m0 |-> <<>>]

W0 == [spans |-> <<>>, staged |-> <<>>, stage |-> "none"]

P0 == [workCh |-> <<>>, workClosed |-> FALSE, resultCh |-> <<>>,
       resultClosed |-> FALSE, left |-> {}, dist |-> "none",
       w |-> [i \in 1..workerCount |-> "none"],
       wv |-> [i \in 1..workerCount |-> Nil],
       drain |-> "none", ctxDone |-> FALSE, err |-> "nil"]

\* ---------------------------------------------------------- ChunkRelations
\* manyToGroup maps a hash to a pointer to a hash set; the sets live in cells
Cells == 1..(MaxHash + 1)
NoCell == 0

\* NewChunkRelations
CR0 == [manyToGroup |-> [h \in Hashes |-> NoCell], heap |-> [c \in Cells |-> {}]]

\* &newGroup, &merged: the address of a set no key points to
NewCell(r) ==
  CHOOSE c \in Cells :
    /\ \A h \in Hashes : r.manyToGroup[h] # c
    /\ \A d \in Cells : d < c => \E h \in Hashes : r.manyToGroup[h] = d

\* sets no key points to any more are garbage
Collect(r) ==
  [r EXCEPT !.heap = [c \in Cells |->
                        IF \E h \in Hashes : r.manyToGroup[h] = c THEN r.heap[c] ELSE {}]]

\* a variant of Add that leaves two known hashes in the groups they have
AddNoMerge(r, ha, hb) ==
  LET haveA == r.manyToGroup[ha] # NoCell
      haveB == r.manyToGroup[hb] # NoCell
      c == NewCell(r)
  IN IF ~haveA /\ ~haveB
       THEN [manyToGroup |-> [r.manyToGroup EXCEPT ![ha] = c, ![hb] = c],
             heap |-> [r.heap EXCEPT ![c] = {ha, hb}]]
     ELSE IF haveA /\ ~haveB
       THEN [manyToGroup |-> [r.manyToGroup EXCEPT ![hb] = r.manyToGroup[ha]],
             heap |-> [r.heap EXCEPT ![r.manyToGroup[ha]] = @ \cup {hb}]]
     ELSE IF ~haveA
       THEN [manyToGroup |-> [r.manyToGroup EXCEPT ![ha] = r.manyToGroup[hb]],
             heap |-> [r.heap EXCEPT ![r.manyToGroup[hb]] = @ \cup {ha}]]
     ELSE r

\* a variant of Add whose merge points only its two arguments to the merged set
AddRepointArgs(r, ha, hb) ==
  LET haveA == r.manyToGroup[ha] # NoCell
      haveB == r.manyToGroup[hb] # NoCell
      c == NewCell(r)
      merged == r.heap[r.manyToGroup[ha]] \cup r.heap[r.manyToGroup[hb]]
  IN IF ~haveA /\ ~haveB
       THEN [manyToGroup |-> [r.manyToGroup EXCEPT ![ha] = c, ![hb] = c],
             heap |-> [r.heap EXCEPT ![c] = {ha, hb}]]
     ELSE IF haveA /\ ~haveB
       THEN [manyToGroup |-> [r.manyToGroup EXCEPT ![hb] = r.manyToGroup[ha]],
             heap |-> [r.heap EXCEPT ![r.manyToGroup[ha]] = @ \cup {hb}]]
     ELSE IF ~haveA
       THEN [manyToGroup |-> [r.manyToGroup EXCEPT ![ha] = r.manyToGroup[hb]],
             heap |-> [r.heap EXCEPT ![r.manyToGroup[hb]] = @ \cup {ha}]]
     ELSE IF r.manyToGroup[ha] = r.manyToGroup[hb]
       THEN r
     ELSE Collect([manyToGroup |-> [r.manyToGroup EXCEPT ![ha] = c, ![hb] = c],
                   heap |-> [r.heap EXCEPT ![c] = merged]])

\* ChunkRelations.Add
Add(r, ha, hb) ==
  LET haveA == r.manyToGroup[ha] # NoCell
      haveB == r.manyToGroup[hb] # NoCell
      c == NewCell(r)
      merged == r.heap[r.manyToGroup[ha]] \cup r.heap[r.manyToGroup[hb]]
  IN IF ~haveA /\ ~haveB
       THEN [manyToGroup |-> [r.manyToGroup EXCEPT ![ha] = c, ![hb] = c],
             heap |-> [r.heap EXCEPT ![c] = {ha, hb}]]
     ELSE IF haveA /\ ~haveB
       THEN [manyToGroup |-> [r.manyToGroup EXCEPT ![hb] = r.manyToGroup[ha]],
             heap |-> [r.heap EXCEPT ![r.manyToGroup[ha]] = @ \cup {hb}]]
     ELSE IF ~haveA
       THEN [manyToGroup |-> [r.manyToGroup EXCEPT ![ha] = r.manyToGroup[hb]],
             heap |-> [r.heap EXCEPT ![r.manyToGroup[hb]] = @ \cup {ha}]]
     ELSE IF r.manyToGroup[ha] = r.manyToGroup[hb]
       THEN r
     ELSE Collect([manyToGroup |-> [h \in Hashes |->
                                      IF h \in merged THEN c ELSE r.manyToGroup[h]],
                   heap |-> [r.heap EXCEPT ![c] = merged]])

\* ChunkRelations.Contains
Contains(r, h) == r.manyToGroup[h] # NoCell

\* ChunkRelations.Count
Count(r) == Cardinality({h \in Hashes : Contains(r, h)})

\* ChunkRelations.groups: one set per distinct pointer
groups(r) == {r.heap[c] : c \in {r.manyToGroup[h] : h \in {k \in Hashes : Contains(r, k)}}}

Least(S) == CHOOSE x \in S : \A y \in S : x <= y

\* the relations whose groups are G, each group in a cell of its own
RelationsOf(G) ==
  LET cell(g) == Cardinality({g2 \in G : Least(g2) <= Least(g)})
  IN [manyToGroup |-> [h \in Hashes |->
                         IF \E g \in G : h \in g THEN cell(CHOOSE g \in G : h \in g) ELSE NoCell],
      heap |-> [c \in Cells |->
                  IF \E g \in G : cell(g) = c THEN CHOOSE g \in G : cell(g) = c ELSE {}]]

\* pairs that give the groups G
PairsOf(G) == UNION {{{ha, hb} : ha, hb \in g} : g \in G}

\* ------------------------------------------------------------------- Init
Catalog == UNION {IdxSeqs(l) : l \in 1..MaxIdx}

RECURSIVE Entries(_)
Entries(ts) == IF ts = <<>> THEN 0 ELSE Len(Head(ts)) + Entries(Tail(ts))

\* the table files of a store: distinct files with at most MaxEntries entries
TableLists ==
  {ts \in UNION {Perms(S) : S \in SUBSET Catalog} :
     /\ ts # <<>>
     /\ Entries(ts) <= MaxEntries}

RECURSIVE SpecsOf(_)
SpecsOf(ts) ==
  IF ts = <<>> THEN <<>>
  ELSE <<TableSpec(TF(Head(ts)), Len(Head(ts)))>> \o SpecsOf(Tail(ts))

\* relation groups over the hashes H: disjoint sets of two or more hashes
GroupSetsOver(H) ==
  {G \in SUBSET {g \in SUBSET H : Cardinality(g) > 1} :
     \A g1, g2 \in G : g1 # g2 => g1 \cap g2 = {}}

\* the relation groups among the hashes the table files of Catalog can hold
GroupSets == GroupSetsOver(UNION {Range(s) : s \in Catalog})

Init ==
  /\ \E ts \in TableLists, k \in 0..MaxEntries :
       /\ k \in {Len(ts) - 1, Len(ts)}
       /\ manifest = [g \in Gens |->
                        IF g = "newGen" THEN <<TableSpec(Journal, 1)>> \o SpecsOf(SubSeq(ts, 1, k))
                        ELSE SpecsOf(SubSeq(ts, k + 1, Len(ts)))]
       /\ disk = {File("newGen", TF(ts[i]), <<>>, <<>>) : i \in 1..k}
                 \cup {File("oldGen", TF(ts[i]), <<>>, <<>>) : i \in (k + 1)..Len(ts)}
       /\ isGen \in BOOLEAN
       /\ dagGroups \in GroupSets
       /\ cr = RelationsOf(dagGroups)
       /\ added = PairsOf(dagGroups)
       /\ dagGroups # {} => Len(ts) = 1 /\ k = 1
  /\ sz \in [raw : [Hashes -> {RawSize}], grp : [Hashes -> 1..MaxCmp], def : [Hashes -> {MaxCmp}]]
  /\ \A h \in Hashes : h \notin UNION dagGroups => sz.grp[h] = MaxCmp
  /\ op = "none"
  /\ purge = FALSE
  /\ runs = 0
  /\ pc = "idle"
  /\ gen = "newGen"
  /\ allFiles = <<>>
  /\ fi = 0
  /\ cancelled = FALSE
  /\ ret = "none"
  /\ progress = {}
  /\ b = B0
  /\ arcW = W0
  /\ par = P0
  /\ padIn = <<>>
  /\ padOut = <<>>
  /\ cas = NoArgs
  /\ cmp = NoCmp
  /\ it = NoCmp

\* ------------------------------------------------------------ the store
\* blockStore.tables.upstream: the containers the manifest lists
Upstream(g) == {manifest[g][i].name : i \in 1..Len(manifest[g])}

\* tableSet.toSpecs
toSpecs(g) == manifest[g]

Msg(m, n) == [m |-> m, n |-> n]

\* the call returns e to its caller: its locals, its writer and its channels
\* are gone; msgs are the diagnostics sent on the way out
Return(e, msgs) ==
  /\ pc' = "idle"
  /\ ret' = e
  /\ progress' = progress \cup msgs
  /\ b' = B0
  /\ arcW' = W0
  /\ par' = P0
  /\ gen' = "newGen"
  /\ allFiles' = <<>>
  /\ fi' = 0
  /\ UNCHANGED <<storeVars, inVars, callVars, cancelled>>

\* ------------------------------------------------- BuildArchive / UnArchive
\* the caller invokes BuildArchive(ctx, cs, dagGroups, purge, progress) or
\* UnArchive(ctx, cs, smd, progress) with a fresh context and progress channel.
\* The store starts with classic table files only, so the first call is
\* BuildArchive; a call that failed is not made again.
Start(o, p) ==
  /\ pc = "idle"
  /\ runs < MaxRuns
  /\ ret \in {"none", "nil"}
  /\ (runs = 0 /\ isGen) => o = "archive"
  /\ op' = o
  /\ purge' = p
  /\ runs' = runs + 1
  /\ pc' = "begin"
  /\ gen' = "newGen"
  /\ allFiles' = <<>>
  /\ fi' = 0
  /\ cancelled' = FALSE
  /\ ret' = "none"
  /\ progress' = {}
  /\ b' = B0
  /\ arcW' = W0
  /\ par' = P0
  /\ UNCHANGED <<storeVars, inVars>>

\* the error of BuildArchive and UnArchive for a store of another type
GenerationalExpected == "runtime error: GenerationalNBS Expected"

\* a variant that treats a store of another type as a single block store
NotGenerationalProceeds ==
  /\ pc = "begin"
  /\ ~isGen
  /\ allFiles' \in Perms(Upstream(gen))
  /\ fi' = 1
  /\ pc' = "loop"
  /\ UNCHANGED <<storeVars, inVars, callVars, gen, cancelled, ret, progress, b, arcW, par>>

\* cs.(*GenerationalNBS) fails: the else branch of BuildArchive and UnArchive
NotGenerational ==
  /\ pc = "begin"
  /\ ~isGen
  /\ Return(GenerationalExpected, {})

\* the head of archiveSingleBlockStore / unArchiveSingleBlockStore: the names
\* of the upstream table files, in the order the map iteration yields them
BeginStore ==
  /\ pc = "begin"
  /\ isGen
  /\ allFiles' \in Perms(Upstream(gen))
  /\ fi' = 1
  /\ pc' = "loop"
  /\ UNCHANGED <<storeVars, inVars, callVars, gen, cancelled, ret, progress, b, arcW, par>>

\* the loop over allFiles is exhausted: the single block store returns nil,
\* and the caller goes on to the old generation or returns nil itself
EndStore ==
  /\ pc = "loop"
  /\ fi > Len(allFiles)
  /\ IF gen = "newGen"
       THEN /\ gen' = "oldGen"
            /\ pc' = "begin"
            /\ UNCHANGED <<storeVars, inVars, callVars, allFiles, fi, cancelled, ret,
                           progress, b, arcW, par>>
       ELSE Return("nil", {})

\* the loop goes on to the next table file
NextFile ==
  /\ fi' = fi + 1
  /\ pc' = "loop"
  /\ b' = B0
  /\ arcW' = W0
  /\ UNCHANGED <<inVars, callVars, gen, allFiles, cancelled, ret, par>>

\* ------------------------------------------------- archiveSingleBlockStore
\* the journal and the containers that already are archives are skipped
ArcSkip ==
  /\ pc = "loop"
  /\ op = "archive"
  /\ fi <= Len(allFiles)
  /\ isJournalAddr(allFiles[fi]) \/ isArchive(allFiles[fi])
  /\ NextFile
  /\ UNCHANGED <<storeVars, progress>>

\* a classic table file: announce it and read its index
ArcEnter ==
  /\ pc = "loop"
  /\ op = "archive"
  /\ fi <= Len(allFiles)
  /\ ~isJournalAddr(allFiles[fi])
  /\ ~isArchive(allFiles[fi])
  /\ progress' = progress \cup {Msg("Archiving TableFile", 0)}
  /\ b' = [B0 EXCEPT !.tf = allFiles[fi], !.idx = allFiles[fi].idx, !.m0 = manifest]
  /\ pc' = "gather"
  /\ UNCHANGED <<storeVars, inVars, callVars, loopVars, cancelled, ret, arcW, par>>

\* ---------------------------------------------- convertTableFileToArchive
\* gatherAllChunks: the first min(chunkCount, maxSamples) chunks in index order
gatherAllChunks(idx) == SubSeq(idx, 1, Min(Len(idx), maxSamples))

\* a variant in which errNotEnoughChunks ends the call like any other error
ArcGatherFatal ==
  /\ pc = "gather"
  /\ \E readOk \in BOOLEAN :
       LET defaultSamples == gatherAllChunks(b.idx) IN
       IF ~readOk
         THEN Return("readError", {})
         ELSE IF Len(defaultSamples) >= minSamples
           THEN /\ b' = [b EXCEPT !.defaultDict = BuildDict(defaultSamples)]
                /\ pc' = "groups"
                /\ UNCHANGED <<storeVars, inVars, callVars, loopVars, cancelled, ret,
                               progress, arcW, par>>
           ELSE Return("notEnoughChunks", {Msg("Not enough chunks. Skipping.", 0)})

\* a variant whose test is len(defaultSamples) > minSamples
ArcGatherStrict ==
  /\ pc = "gather"
  /\ \E readOk \in BOOLEAN :
       LET defaultSamples == gatherAllChunks(b.idx) IN
       IF ~readOk
         THEN Return("readError", {})
         ELSE IF Len(defaultSamples) > minSamples
           THEN /\ b' = [b EXCEPT !.defaultDict = BuildDict(defaultSamples)]
                /\ pc' = "groups"
                /\ UNCHANGED <<storeVars, inVars, callVars, loopVars, cancelled, ret,
                               progress, arcW, par>>
           ELSE /\ progress' = progress \cup {Msg("Not enough chunks. Skipping.", 0)}
                /\ NextFile
                /\ UNCHANGED storeVars

\* gatherAllChunks, then the minSamples test and the default dictionary;
\* on errNotEnoughChunks archiveSingleBlockStore skips the container
ArcGather ==
  /\ pc = "gather"
  /\ \E readOk \in BOOLEAN :
       LET defaultSamples == gatherAllChunks(b.idx) IN
       IF ~readOk
         THEN Return("readError", {})
         ELSE IF Len(defaultSamples) >= minSamples
           THEN /\ b' = [b EXCEPT !.defaultDict = BuildDict(defaultSamples)]
                /\ pc' = "groups"
                /\ UNCHANGED <<storeVars, inVars, callVars, loopVars, cancelled, ret,
                               progress, arcW, par>>
           ELSE /\ progress' = progress \cup {Msg("Not enough chunks. Skipping.", 0)}
                /\ NextFile
                /\ UNCHANGED storeVars

\* ------------------------------------------------------------ chunk groups
\* chunkSource.get: the bytes the source holds for h, nil when it holds none
SourceGet(idx, h) == IF h \in Range(idx) THEN h ELSE Nil

\* a variant of get that caches the nil chunk as well
getCachingNil(cache, idx, h) ==
  IF \E e \in cache : e.h = h
    THEN [chk |-> (CHOOSE e \in cache : e.h = h).chk, cache |-> cache]
    ELSE [chk |-> SourceGet(idx, h),
          cache |-> cache \cup {[h |-> h, chk |-> SourceGet(idx, h)]}]

\* simpleChunkSourceCache.get on a cache of entries [h, chk] over the source
\* of index idx: the chunk returned and the cache left
get(cache, idx, h) ==
  IF \E e \in cache : e.h = h
    THEN [chk |-> (CHOOSE e \in cache : e.h = h).chk, cache |-> cache]
    ELSE IF SourceGet(idx, h) = Nil
      THEN [chk |-> Nil, cache |-> cache]
      ELSE [chk |-> SourceGet(idx, h),
            cache |-> cache \cup {[h |-> h, chk |-> SourceGet(idx, h)]}]

\* the cache after a get of every hash of S
RECURSIVE GetEach(_, _, _)
GetEach(cache, idx, S) ==
  IF S = {} THEN cache
  ELSE LET h == CHOOSE x \in S : TRUE
       IN GetEach(get(cache, idx, h).cache, idx, S \ {h})

\* the chunk simpleChunkSourceCache.get returns, hit or miss: nil for a hash
\* the source does not hold
CacheGet(idx, h) == IF h \in Range(idx) THEN h ELSE Nil

\* the compressed size of chunk h under a dictionary
CmpLen(h, dict, defaultDict) == IF dict = defaultDict THEN sz.def[h] ELSE sz.grp[h]

\* padSamples: whole copies of the chunk list until there are padMin samples;
\* the number of copies (the loop does not end on an empty list)
PadCopies(n) == CHOOSE k \in 1..padMin : k * n >= padMin /\ (k - 1) * n < padMin

\* the dictionary rebuild trains on the group's chunks
GroupDict(present) == [h \in Hashes |-> IF h \in present THEN PadCopies(Cardinality(present)) ELSE 0]

chunkCmpScore(h) ==
  [chunkId |-> h, raw |-> sz.raw[h], dictCmpSize |-> sz.grp[h], defaultDictCmpSize |-> sz.def[h]]

\* scored[i].score > scored[j].score, score = (len(d) - len(comp)) / len(d)
ScoreGT(x, y) == (x.raw - x.dictCmpSize) * y.raw > (y.raw - y.dictCmpSize) * x.raw

\* what sort.Slice(scored, ...) may leave: an order with no later element greater
SortedByScore(S) ==
  {p \in Perms(S) : \A i, j \in 1..Len(p) : i < j => ~ScoreGT(p[j], p[i])}

\* chunkGroup.rebuild on the hashes of one relation group: the chunks the
\* source holds are scored, sorted by score, and the totals computed
rebuild(hs, idx, chks) ==
  LET present == {h \in hs : CacheGet(idx, h) # Nil}
      raw == SumOver(sz.raw, present)
      dictCmpSize == DictCmpSize + SumOver(sz.grp, present)
      noDictCmpSize == SumOver(sz.def, present)
  IN [dict |-> GroupDict(present),
      chks |-> chks,
      totalBytesSavedWDict |-> raw - dictCmpSize,
      totalBytesSavedDefaultDict |-> raw - noDictCmpSize]

\* a variant of the comparison that puts the smallest saving first
SavedLT(x, y) == x.totalBytesSavedWDict < y.totalBytesSavedWDict

\* cgList[i].totalBytesSavedWDict > cgList[j].totalBytesSavedWDict
SavedGT(x, y) == x.totalBytesSavedWDict > y.totalBytesSavedWDict

\* what sort.Slice(cgList, ...) may leave
SortedBySaved(S) ==
  {p \in Perms(S) : \A i, j \in 1..Len(p) : i < j => ~SavedGT(p[j], p[i])}

\* a variant that keeps a score for the hashes the source does not hold
GroupCandidatesAll(hs, idx) ==
  {rebuild(hs, idx, chks) : chks \in SortedByScore({chunkCmpScore(h) : h \in hs})}

\* newChunkGroup on one relation group: the group with its chunks in an order
\* the sort by score may leave
GroupCandidates(hs, idx) ==
  {rebuild(hs, idx, chks) :
     chks \in SortedByScore({chunkCmpScore(h) : h \in hs \cap Range(idx)})}

\* the groups convertToChunkGroups builds: one per relation group of size > 1
ChunkGroups(idx) ==
  UNION {GroupCandidates(hs, idx) : hs \in {g \in dagGroups : Cardinality(g) > 1}}

\* the lists of groups sorted by totalBytesSavedWDict, one group per relation group
GroupLists(idx) ==
  LET gs == {g \in dagGroups : Cardinality(g) > 1}
      picks == {f \in [gs -> ChunkGroups(idx)] : \A g \in gs : f[g] \in GroupCandidates(g, idx)}
  IN UNION {SortedBySaved({f[g] : g \in gs}) : f \in picks}

\* convertToChunkGroups is left on ctx.Done when the select takes that case
ArcGroupsCancel ==
  /\ pc = "groups"
  /\ cancelled
  /\ dagGroups # {}
  /\ Return("cancelled", {})

\* a relation group none of whose hashes is in this container: rebuild has no
\* chunk, and padSamples never reaches padMin samples
ArcGroupsHang ==
  /\ pc = "groups"
  /\ \E g \in dagGroups : Cardinality(g) > 1 /\ g \cap Range(b.idx) = {}
  /\ pc' = "hung"
  /\ UNCHANGED <<storeVars, inVars, callVars, loopVars, cancelled, ret, progress, b, arcW, par>>

\* convertToChunkGroups and the sort of cgList by totalBytesSavedWDict
ArcGroups ==
  /\ pc = "groups"
  /\ \A g \in dagGroups : Cardinality(g) > 1 => g \cap Range(b.idx) # {}
  /\ \E l \in GroupLists(b.idx) :
       b' = [b EXCEPT !.cgList = l,
                      !.cache = GetEach(b.cache, b.idx,
                                        UNION {g \in dagGroups : Cardinality(g) > 1})]
  /\ pc' = "defspan"
  /\ UNCHANGED <<storeVars, inVars, callVars, loopVars, cancelled, ret, progress, arcW, par>>

\* ---------------------------------------------------------- archiveWriter
\* archiveWriter.writeByteSpan: appends, the span id is the new length
writeByteSpan(w, bytes) == [w EXCEPT !.spans = Append(w.spans, bytes)]

\* archiveWriter.stageZStdChunk
stageZStdChunk(w, h, dictId, dataId) ==
  [w EXCEPT !.staged = Append(w.staged, [h |-> h, dict |-> dictId, data |-> dataId])]

\* archiveWriter.chunkSeen
chunkSeen(w, h) == \E i \in 1..Len(w.staged) : w.staged[i].h = h

\* newArchiveWriter and the default dictionary span
ArcDefaultSpan ==
  /\ pc = "defspan"
  /\ \E writeOk \in BOOLEAN :
       IF writeOk
         THEN /\ arcW' = writeByteSpan([W0 EXCEPT !.stage = "spans"],
                                       CompressDictionary(b.defaultDict))
              /\ b' = [b EXCEPT !.defaultSpanId = Len(arcW'.spans)]
              /\ pc' = "data"
              /\ UNCHANGED <<storeVars, inVars, callVars, loopVars, cancelled, ret,
                             progress, par>>
         ELSE Return("writeError", {})

\* ------------------------------------------------------ writeDataToArchive
\* simpleChunkSourceCache.addresses: the set of the hashes of the source index
addresses(idx) == Range(idx)

\* the head of writeDataToArchive: the ungrouped set starts as every address
WriteDataStart ==
  /\ pc = "data"
  /\ b' = [b EXCEPT !.allChunks = addresses(b.idx), !.gi = 1]
  /\ pc' = "matgroups"
  /\ UNCHANGED <<storeVars, inVars, callVars, loopVars, cancelled, ret, progress, arcW, par>>

\* the ids of the spans of w that hold the compressed dictionary of cg
DictSpanIds(w, cg) == {n \in 1..Len(w.spans) : w.spans[n] = CompressDictionary(cg.dict)}

\* a variant of the test that lets a tie pass
GroupPaysOrTies(cg) == cg.totalBytesSavedWDict >= cg.totalBytesSavedDefaultDict

\* the test that decides whether a group is written with its own dictionary
GroupPays(cg) == cg.totalBytesSavedWDict > cg.totalBytesSavedDefaultDict

\* the inner loop over cg.chks: every chunk not yet seen is compressed with
\* the group dictionary, written as a span and staged against dictId
RECURSIVE StageGroup(_, _, _, _)
StageGroup(w, chks, dict, dictId) ==
  IF chks = <<>> THEN w
  ELSE LET h == Head(chks).chunkId
           w1 == writeByteSpan(w, CompressDict(h, dict))
           w2 == stageZStdChunk(w1, h, dictId, Len(w1.spans))
       IN StageGroup(IF chunkSeen(w, h) THEN w ELSE w2, Tail(chks), dict, dictId)

\* a variant that stages the group's chunks against the default dictionary span
MaterializeGroupDefaultId(w, cg) ==
  IF GroupPays(cg)
    THEN LET w1 == writeByteSpan(w, CompressDictionary(cg.dict))
         IN StageGroup(w1, cg.chks, cg.dict, 1)
    ELSE w

\* one round of the loop over cgList
MaterializeGroup(w, cg) ==
  IF GroupPays(cg)
    THEN LET w1 == writeByteSpan(w, CompressDictionary(cg.dict))
         IN StageGroup(w1, cg.chks, cg.dict, Len(w1.spans))
    ELSE w

\* the chunks a round removes from the ungrouped set
GroupRemoves(cg) == IF GroupPays(cg) THEN {cg.chks[i].chunkId : i \in 1..Len(cg.chks)} ELSE {}

\* a variant that leaves the chunks it stages in the ungrouped set
ArcGroupKeeps ==
  /\ pc = "matgroups"
  /\ b.gi <= Len(b.cgList)
  /\ \E writeOk \in BOOLEAN :
       LET cg == b.cgList[b.gi] IN
       IF cancelled
         THEN Return("cancelled", {})
         ELSE IF writeOk
           THEN /\ arcW' = MaterializeGroup(arcW, cg)
                /\ b' = [b EXCEPT !.gi = b.gi + 1,
                                  !.groupCount = b.groupCount + (IF GroupPays(cg) THEN 1 ELSE 0),
                                  !.grouped = b.grouped + Len(arcW'.staged) - Len(arcW.staged),
                                  !.cache = GetEach(b.cache, b.idx, GroupRemoves(cg))]
                /\ UNCHANGED <<storeVars, inVars, callVars, loopVars, pc, cancelled, ret,
                               progress, par>>
           ELSE /\ GroupPays(cg)
                /\ Return("writeError", {})

\* one round of the loop over cgList: the select on ctx.Done, then the group
ArcGroup ==
  /\ pc = "matgroups"
  /\ b.gi <= Len(b.cgList)
  /\ \E writeOk \in BOOLEAN :
       LET cg == b.cgList[b.gi] IN
       IF cancelled
         THEN Return("cancelled", {})
         ELSE IF writeOk
           THEN /\ arcW' = MaterializeGroup(arcW, cg)
                /\ b' = [b EXCEPT !.gi = b.gi + 1,
                                  !.groupCount = b.groupCount + (IF GroupPays(cg) THEN 1 ELSE 0),
                                  !.grouped = b.grouped + Len(arcW'.staged) - Len(arcW.staged),
                                  !.allChunks = b.allChunks \ GroupRemoves(cg),
                                  !.cache = GetEach(b.cache, b.idx, GroupRemoves(cg))]
                /\ UNCHANGED <<storeVars, inVars, callVars, loopVars, pc, cancelled, ret,
                               progress, par>>
           ELSE /\ GroupPays(cg)
                /\ Return("writeError", {})

\* ------------------------------------------------ compressChunksInParallel
\* the channels are made and the goroutines started: the distributor, the
\* workerCount workers and the drain, under an errgroup whose context derives
\* from context.Background()
ParStart ==
  /\ pc = "matgroups"
  /\ b.gi > Len(b.cgList)
  /\ par' = [P0 EXCEPT !.left = b.allChunks, !.dist = "run",
                       !.w = [i \in 1..workerCount |-> "recv"], !.drain = "run"]
  /\ pc' = "workers"
  /\ UNCHANGED <<storeVars, inVars, callVars, loopVars, cancelled, ret, progress, b, arcW>>

\* errgroup: the first goroutine to return an error cancels the group's context
EgFail(p, e) == [p EXCEPT !.ctxDone = TRUE, !.err = IF p.err = "nil" THEN e ELSE p.err]

\* eg, ctx := errgroup.WithContext(context.Background()): the context the
\* goroutines select on is done once one of them has failed; the caller's ctx
\* is not its parent
EgCtxDone == par.ctxDone

\* the outcomes of an I/O operation inside the pass: success, or an error
PassFaults == IF Len(b.idx) <= MaxFaultLen THEN BOOLEAN ELSE {TRUE}

\* the distributor sends the next hash of the map iteration on workCh
DistSend ==
  /\ par.dist = "run"
  /\ Len(par.workCh) < workerCount
  /\ \E h \in par.left :
       par' = [par EXCEPT !.workCh = Append(par.workCh, h), !.left = par.left \ {h}]
  /\ UNCHANGED <<storeVars, inVars, callVars, loopVars, pc, cancelled, ret, progress, b, arcW>>

\* the distributor has sent every hash: close(workCh)
DistClose ==
  /\ par.dist = "run"
  /\ par.left = {}
  /\ par' = [par EXCEPT !.workClosed = TRUE, !.dist = "done"]
  /\ UNCHANGED <<storeVars, inVars, callVars, loopVars, pc, cancelled, ret, progress, b, arcW>>

\* the distributor takes case <-ctx.Done() of its select
DistDone ==
  /\ par.dist = "run"
  /\ par.left # {}
  /\ EgCtxDone
  /\ par' = [EgFail(par, "ctxCause") EXCEPT !.dist = "done"]
  /\ UNCHANGED <<storeVars, inVars, callVars, loopVars, pc, cancelled, ret, progress, b, arcW>>

\* a worker receives a hash, fetches the chunk through the cache and
\* compresses it with the default dictionary; a read error ends the worker
WorkerRecv(i) ==
  /\ par.w[i] = "recv"
  /\ par.workCh # <<>>
  /\ \E readOk \in PassFaults :
       LET addr == Head(par.workCh)
           p1 == [par EXCEPT !.workCh = Tail(par.workCh)]
       IN IF readOk
            THEN /\ par' = [p1 EXCEPT !.w[i] = "send", !.wv[i] = CacheGet(b.idx, addr)]
                 /\ b' = [b EXCEPT !.cache = get(b.cache, b.idx, addr).cache]
            ELSE /\ par' = [EgFail(p1, "readError") EXCEPT !.w[i] = "done"]
                 /\ b' = b
  /\ UNCHANGED <<storeVars, inVars, callVars, loopVars, pc, cancelled, ret, progress, arcW>>

\* a variant in which the worker writes the byte span itself before it sends
WorkerSendWrites(i) ==
  /\ par.w[i] = "send"
  /\ Len(par.resultCh) < workerCount
  /\ arcW' = writeByteSpan(arcW, CompressDict(par.wv[i], b.defaultDict))
  /\ par' = [par EXCEPT !.w[i] = "recv", !.wv[i] = Nil,
                        !.resultCh = Append(par.resultCh,
                                            [h |-> par.wv[i],
                                             data |-> CompressDict(par.wv[i], b.defaultDict)])]
  /\ UNCHANGED <<storeVars, inVars, callVars, loopVars, pc, cancelled, ret, progress, b>>

\* a worker sends its compressed chunk on resultCh
WorkerSend(i) ==
  /\ par.w[i] = "send"
  /\ Len(par.resultCh) < workerCount
  /\ par' = [par EXCEPT !.w[i] = "recv", !.wv[i] = Nil,
                        !.resultCh = Append(par.resultCh,
                                            [h |-> par.wv[i],
                                             data |-> CompressDict(par.wv[i], b.defaultDict)])]
  /\ UNCHANGED <<storeVars, inVars, callVars, loopVars, pc, cancelled, ret, progress, b, arcW>>

\* a worker finds workCh closed and empty
WorkerExit(i) ==
  /\ par.w[i] = "recv"
  /\ par.workCh = <<>>
  /\ par.workClosed
  /\ par' = [par EXCEPT !.w[i] = "done"]
  /\ UNCHANGED <<storeVars, inVars, callVars, loopVars, pc, cancelled, ret, progress, b, arcW>>

\* a variant in which only the send select of a worker has a ctx.Done case
WorkerDoneSendOnly(i) ==
  /\ par.w[i] = "send"
  /\ EgCtxDone
  /\ par' = [EgFail(par, "ctxCause") EXCEPT !.w[i] = "done"]
  /\ UNCHANGED <<storeVars, inVars, callVars, loopVars, pc, cancelled, ret, progress, b, arcW>>

\* a worker takes case <-ctx.Done() in either select
WorkerDone(i) ==
  /\ par.w[i] \in {"recv", "send"}
  /\ EgCtxDone
  /\ par' = [EgFail(par, "ctxCause") EXCEPT !.w[i] = "done"]
  /\ UNCHANGED <<storeVars, inVars, callVars, loopVars, pc, cancelled, ret, progress, b, arcW>>

\* a variant of the drain that passes the two span ids in the other order
DrainRecvIdsSwapped ==
  /\ par.drain = "run"
  /\ par.resultCh # <<>>
  /\ \E writeOk \in PassFaults :
       LET cc == Head(par.resultCh)
           p1 == [par EXCEPT !.resultCh = Tail(par.resultCh)]
           w1 == writeByteSpan(arcW, cc.data)
       IN IF writeOk
            THEN /\ arcW' = stageZStdChunk(w1, cc.h, Len(w1.spans), b.defaultSpanId)
                 /\ par' = p1
            ELSE /\ arcW' = arcW
                 /\ par' = [EgFail(p1, "writeError") EXCEPT !.drain = "done"]
  /\ UNCHANGED <<storeVars, inVars, callVars, loopVars, pc, cancelled, ret, progress, b>>

\* the drain receives a result, writes it as a span, stages the chunk against
\* the default dictionary span and reports progress
DrainRecv ==
  /\ par.drain = "run"
  /\ par.resultCh # <<>>
  /\ \E writeOk \in PassFaults :
       LET cc == Head(par.resultCh)
           p1 == [par EXCEPT !.resultCh = Tail(par.resultCh)]
           w1 == writeByteSpan(arcW, cc.data)
       IN IF writeOk
            THEN /\ arcW' = stageZStdChunk(w1, cc.h, b.defaultSpanId, Len(w1.spans))
                 /\ par' = p1
            ELSE /\ arcW' = arcW
                 /\ par' = [EgFail(p1, "writeError") EXCEPT !.drain = "done"]
  /\ UNCHANGED <<storeVars, inVars, callVars, loopVars, pc, cancelled, ret, progress, b>>

\* the drain finds resultCh closed and empty
DrainExit ==
  /\ par.drain = "run"
  /\ par.resultCh = <<>>
  /\ par.resultClosed
  /\ par' = [par EXCEPT !.drain = "done"]
  /\ UNCHANGED <<storeVars, inVars, callVars, loopVars, pc, cancelled, ret, progress, b, arcW>>

\* the drain takes case <-ctx.Done()
DrainDone ==
  /\ par.drain = "run"
  /\ EgCtxDone
  /\ par' = [EgFail(par, "ctxCause") EXCEPT !.drain = "done"]
  /\ UNCHANGED <<storeVars, inVars, callVars, loopVars, pc, cancelled, ret, progress, b, arcW>>

\* workerGroup.Wait() returns: close(resultCh)
WorkersWaited ==
  /\ pc = "workers"
  /\ \A i \in 1..workerCount : par.w[i] = "done"
  /\ par' = [par EXCEPT !.resultClosed = TRUE]
  /\ pc' = "egwait"
  /\ UNCHANGED <<storeVars, inVars, callVars, loopVars, cancelled, ret, progress, b, arcW>>

\* a variant that counts every address of the source as an ungrouped chunk
EgWaitAllAddresses ==
  /\ pc = "egwait"
  /\ par.dist = "done"
  /\ par.drain = "done"
  /\ IF par.err # "nil"
       THEN Return(par.err, {})
       ELSE /\ b' = [b EXCEPT !.singles = Cardinality(addresses(b.idx))]
            /\ pc' = "finalize"
            /\ par' = P0
            /\ UNCHANGED <<storeVars, inVars, callVars, loopVars, cancelled, ret, progress, arcW>>

\* eg.Wait() returns: the first error of the group, which goes up to the caller
\* of BuildArchive, or nil, and every ungrouped chunk is counted
EgWait ==
  /\ pc = "egwait"
  /\ par.dist = "done"
  /\ par.drain = "done"
  /\ IF par.err # "nil"
       THEN Return(par.err, {})
       ELSE /\ b' = [b EXCEPT !.singles = Cardinality(b.allChunks)]
            /\ pc' = "finalize"
            /\ par' = P0
            /\ UNCHANGED <<storeVars, inVars, callVars, loopVars, cancelled, ret, progress, arcW>>

\* ------------------------------------------------ indexFinalizeFlushArchive
\* a variant that writes the index before the byte spans are finalized
NextStageIndexFirst(st) ==
  CASE st = "spans" -> "indexed"
    [] st = "indexed" -> "finalized"
    [] st = "finalized" -> "metadata"
    [] st = "metadata" -> "footer"
    [] st = "footer" -> "named"

\* the writer steps of indexFinalize, in the order they are called:
\* finalizeByteSpans, writeIndex, writeMetadata, writeFooter; then genFileName
NextStage(st) ==
  CASE st = "spans" -> "finalized"
    [] st = "finalized" -> "indexed"
    [] st = "indexed" -> "metadata"
    [] st = "metadata" -> "footer"
    [] st = "footer" -> "named"

RECURSIVE SpanLens(_, _)
SpanLens(spans, defaultDict) ==
  IF spans = <<>> THEN <<>>
  ELSE <<IF Head(spans).t = "dict" THEN DictCmpSize
         ELSE CmpLen(Head(spans).h, Head(spans).d, defaultDict)>>
       \o SpanLens(Tail(spans), defaultDict)

\* archiveWriter.writeFooter / getName: the digest of the index (the span
\* lengths and the chunk table), the metadata (the origin table file) and the footer
ArchiveName(w, origin, defaultDict) ==
  [k |-> "darc", idx |-> <<>>, origin |-> origin.idx,
   lens |-> SpanLens(w.spans, defaultDict), chunks |-> w.staged]

WriterStep ==
  /\ pc = "finalize"
  /\ arcW.stage # "named"
  /\ \E writeOk \in BOOLEAN :
       IF writeOk
         THEN /\ arcW' = [arcW EXCEPT !.stage = NextStage(arcW.stage)]
              /\ b' = IF arcW'.stage = "footer"
                        THEN [b EXCEPT !.name = ArchiveName(arcW, b.tf, b.defaultDict)]
                        ELSE b
              /\ UNCHANGED <<storeVars, inVars, callVars, loopVars, pc, cancelled, ret,
                             progress, par>>
         ELSE Return("writeError", {})

\* the files of directory g other than the one named name
OtherFiles(g, name) == {f \in disk : ~(f.g = g /\ f.name = name)}

\* a variant that lists the archive in the manifest as it flushes the file
ArcFlushListing ==
  /\ pc = "finalize"
  /\ arcW.stage = "named"
  /\ disk' = OtherFiles(gen, b.name) \cup {File(gen, b.name, arcW.spans, arcW.staged)}
  /\ manifest' = [manifest EXCEPT ![gen] = Append(manifest[gen], TableSpec(b.name, Len(arcW.staged)))]
  /\ arcW' = [arcW EXCEPT !.stage = "flushed"]
  /\ pc' = "count"
  /\ UNCHANGED <<inVars, callVars, loopVars, cancelled, ret, progress, b, par>>

\* flushToFile: the buffered file is moved to the path genFileName gave
ArcFlush ==
  /\ pc = "finalize"
  /\ arcW.stage = "named"
  /\ \E writeOk \in BOOLEAN :
       IF writeOk
         THEN /\ disk' = OtherFiles(gen, b.name) \cup {File(gen, b.name, arcW.spans, arcW.staged)}
              /\ arcW' = [arcW EXCEPT !.stage = "flushed"]
              /\ pc' = "count"
              /\ UNCHANGED <<manifest, inVars, callVars, loopVars, cancelled, ret, progress,
                             b, par>>
         ELSE Return("writeError", {})

\* a variant that returns the chunk count of the source index
ArcCountIndex ==
  /\ pc = "count"
  /\ b' = [b EXCEPT !.chkCnt = Len(b.idx)]
  /\ pc' = "stat"
  /\ UNCHANGED <<storeVars, inVars, callVars, loopVars, cancelled, ret, progress, arcW, par>>

\* the tail of convertTableFileToArchive: the chunk count, the duplicate
\* diagnostic and the name
ArcCount ==
  /\ pc = "count"
  /\ LET chunkCount == b.grouped + b.singles IN
       /\ b' = [b EXCEPT !.chkCnt = chunkCount]
       /\ progress' = IF chunkCount # Len(b.idx)
                        THEN progress \cup {Msg("Chunk count mismatch. Duplicate chunks",
                                                Len(b.idx) - chunkCount)}
                        ELSE progress
  /\ pc' = "stat"
  /\ UNCHANGED <<storeVars, inVars, callVars, loopVars, cancelled, ret, arcW, par>>

\* ------------------------------------------- archiveSingleBlockStore, cont.
FileAt(g, name) == {f \in disk : f.g = g /\ f.name = name}

\* os.Stat(archivePath)
ArcStat ==
  /\ pc = "stat"
  /\ IF FileAt(gen, b.name) # {}
       THEN /\ pc' = "verify"
            /\ UNCHANGED <<storeVars, inVars, callVars, loopVars, cancelled, ret, progress,
                           b, arcW, par>>
       ELSE Return("statError", {Msg("Failed to stat archive file", 0)})

\* ---------------------------------------------------------- archive reader
\* the index entries of an archive file for hash h
EntriesFor(f, h) == {i \in 1..Len(f.chunks) : f.chunks[i].h = h}

\* archiveReader.has
ReaderHas(f, h) == EntriesFor(f, h) # {}

\* archiveReader.get: read the data span, read the dictionary span,
\* decompress with the dictionary; nil for a hash that has no entry
ReaderGet(f, h) ==
  IF ~ReaderHas(f, h) THEN Nil
  ELSE LET e == f.chunks[CHOOSE i \in EntriesFor(f, h) : TRUE]
       IN IF e.dict \notin 1..Len(f.spans) \/ e.data \notin 1..Len(f.spans) THEN Garbage
          ELSE DecompressDict(f.spans[e.data], DecompressDictionary(f.spans[e.dict]))

\* a variant that does not compare the hash of the data read back
ChunkVerifiesNoHash(f, h) ==
  /\ ReaderHas(f, h)
  /\ ReaderGet(f, h) # Nil

\* the checks verifyAllChunks makes for one hash of the source index
ChunkVerifies(f, h) ==
  /\ ReaderHas(f, h)
  /\ ReaderGet(f, h) # Nil
  /\ HashOf(ReaderGet(f, h)) = h

\* verifyAllChunks: every hash of the source index is read back
verifyAllChunks(idx, f) == \A i \in 1..Len(idx) : ChunkVerifies(f, idx[i])

\* the storage damages the archive file between its write and its read back:
\* the last index entry is lost, or the last span is unreadable
Damaged(f, how) ==
  IF how = "entry"
    THEN [f EXCEPT !.chunks = SubSeq(f.chunks, 1, Len(f.chunks) - 1)]
    ELSE [f EXCEPT !.spans = [f.spans EXCEPT ![Len(f.spans)] = [t |-> "bad", d |-> NoDict, h |-> Nil]]]

Corrupt ==
  /\ pc = "verify"
  /\ \E f \in FileAt(gen, b.name), how \in {"entry", "span"} :
       /\ f.spans = arcW.spans
       /\ f.chunks = arcW.staged
       /\ disk' = (disk \ {f}) \cup {Damaged(f, how)}
  /\ UNCHANGED <<manifest, inVars, callVars, loopVars, pc, cancelled, ret, progress, b, arcW, par>>

\* a variant that goes on to the swap whatever verifyAllChunks found
ArcVerifyLax ==
  /\ pc = "verify"
  /\ pc' = "swap"
  /\ UNCHANGED <<storeVars, inVars, callVars, loopVars, cancelled, ret, progress, b, arcW, par>>

\* rand.Shuffle: the orders in which the hash list of idx may be checked
Shuffles(idx) == {[i \in 1..Len(idx) |-> idx[p[i]]] : p \in Perms(1..Len(idx))}

\* verifyAllChunks, the loop over hashList: the value chunkProgress has
\* reached when the loop ends, at the first hash that fails or at the end
RECURSIVE Verified(_, _)
Verified(hashList, f) ==
  IF hashList = <<>> \/ ~ChunkVerifies(f, Head(hashList)) THEN 0
  ELSE 1 + Verified(Tail(hashList), f)

\* the progress messages of a loop that has verified k hashes
VerifyMsgs(k) == {Msg("Verifying Chunks", j) : j \in 1..k}

\* verifyAllChunks on the archive just written; an error is returned as it is:
\* the reader cannot be opened, or a hash of the shuffled list fails
ArcVerify ==
  /\ pc = "verify"
  /\ \E f \in FileAt(gen, b.name), readOk \in BOOLEAN, hashList \in Shuffles(b.idx) :
       LET k == Verified(hashList, f) IN
       IF ~readOk
         THEN Return("readError", {})
         ELSE IF k = Len(hashList)
           THEN /\ pc' = "swap"
                /\ progress' = progress \cup VerifyMsgs(k)
                /\ UNCHANGED <<storeVars, inVars, callVars, loopVars, cancelled, ret,
                               b, arcW, par>>
           ELSE Return("verifyError", VerifyMsgs(k))

\* ------------------------------------------------------------ manifest swap
\* a variant that drops the old entry and appends the new one
RECURSIVE NewSpecsAppended(_, _, _, _)
NewSpecsAppended(specs, old, new, cnt) ==
  IF specs = <<>> THEN <<TableSpec(new, cnt)>>
  ELSE (IF Head(specs).name = old THEN <<>> ELSE <<Head(specs)>>)
       \o NewSpecsAppended(Tail(specs), old, new, cnt)

\* the new spec list: the entry of the old container is replaced, the others kept
RECURSIVE NewSpecs(_, _, _, _)
NewSpecs(specs, old, new, cnt) ==
  IF specs = <<>> THEN <<>>
  ELSE <<IF Head(specs).name = old THEN TableSpec(new, cnt) ELSE Head(specs)>>
       \o NewSpecs(Tail(specs), old, new, cnt)

HasSpec(specs, name) == \E i \in 1..Len(specs) : specs[i].name = name

\* what swapTables reports: the list was written, the manifest had moved since
\* the specs were read, or another error
SwapOutcomes == {"ok", "conflict", "error"}

\* the error archiveSingleBlockStore and unArchiveSingleBlockStore return for it
SwapError(out) == IF out = "conflict" THEN "swapConflict" ELSE "swapError"

\* a variant that sets purgeFile whatever the caller asked for
ArcSwapAlwaysPurge ==
  /\ pc = "swap"
  /\ manifest' = [manifest EXCEPT ![gen] = NewSpecs(toSpecs(gen), b.tf, b.name, b.chkCnt)]
  /\ b' = [b EXCEPT !.purgeFile = b.tf]
  /\ pc' = "purge"
  /\ UNCHANGED <<disk, inVars, callVars, loopVars, cancelled, ret, progress, arcW, par>>

\* toSpecs, the new spec list and swapTables; purgeFile is set where the old
\* entry is found, if the caller asked for the purge
ArcSwap ==
  /\ pc = "swap"
  /\ \E out \in SwapOutcomes :
       LET specs == toSpecs(gen)
           newSpecs == NewSpecs(specs, b.tf, b.name, b.chkCnt)
           purgeFile == IF HasSpec(specs, b.tf) /\ purge THEN b.tf ELSE NoName
       IN IF out = "ok"
            THEN /\ manifest' = [manifest EXCEPT ![gen] = newSpecs]
                 /\ b' = [b EXCEPT !.purgeFile = purgeFile]
                 /\ pc' = "purge"
                 /\ UNCHANGED <<disk, inVars, callVars, loopVars, cancelled, ret, progress,
                                arcW, par>>
            ELSE Return(SwapError(out), {})

\* a variant that removes the archive just listed instead of the old file
ArcPurgeArchive ==
  /\ pc = "purge"
  /\ op = "archive"
  /\ \E removeOk \in BOOLEAN :
       IF b.purgeFile = NoName
         THEN /\ removeOk
              /\ UNCHANGED <<disk, progress>>
         ELSE IF removeOk /\ FileAt(gen, b.name) # {}
           THEN /\ disk' = OtherFiles(gen, b.name)
                /\ progress' = progress
           ELSE /\ disk' = disk
                /\ progress' = progress \cup {Msg("Failed to purge.", 0)}
  /\ NextFile
  /\ UNCHANGED manifest

\* os.Remove(purgeFile) when a purge file was set; a failure is reported and
\* the loop goes on
ArcPurge ==
  /\ pc = "purge"
  /\ op = "archive"
  /\ \E removeOk \in BOOLEAN :
       IF b.purgeFile = NoName
         THEN /\ removeOk
              /\ UNCHANGED <<disk, progress>>
         ELSE IF removeOk /\ FileAt(gen, b.purgeFile) # {}
           THEN /\ disk' = OtherFiles(gen, b.purgeFile)
                /\ progress' = progress
           ELSE /\ disk' = disk
                /\ progress' = progress \cup {Msg("Failed to purge.", 0)}
  /\ NextFile
  /\ UNCHANGED manifest

\* ---------------------------------------------- unArchiveSingleBlockStore
\* a variant that removes the file of the container it skips
UnSkipRemoves ==
  /\ pc = "loop"
  /\ op = "unarchive"
  /\ fi <= Len(allFiles)
  /\ isJournalAddr(allFiles[fi]) \/ ~isArchive(allFiles[fi])
  /\ disk' = OtherFiles(gen, allFiles[fi])
  /\ NextFile
  /\ UNCHANGED <<manifest, progress>>

\* the journal and the containers that are no archives are skipped
UnSkip ==
  /\ pc = "loop"
  /\ op = "unarchive"
  /\ fi <= Len(allFiles)
  /\ isJournalAddr(allFiles[fi]) \/ ~isArchive(allFiles[fi])
  /\ NextFile
  /\ UNCHANGED <<storeVars, progress>>

\* the sorted sequence of a set of hashes: the index of a table file
RECURSIVE SortedSeq(_)
SortedSeq(S) ==
  IF S = {} THEN <<>>
  ELSE LET m == CHOOSE x \in S : \A y \in S : x <= y IN <<m>> \o SortedSeq(S \ {m})

\* the writer after the drain has written and staged the results for the
\* hashes hs, received in this order
RECURSIVE DrainInOrder(_, _, _, _)
DrainInOrder(w, hs, defaultDict, defaultSpanId) ==
  IF hs = <<>> THEN w
  ELSE LET w1 == writeByteSpan(w, CompressDict(Head(hs), defaultDict))
       IN DrainInOrder(stageZStdChunk(w1, Head(hs), defaultSpanId, Len(w1.spans)),
                       Tail(hs), defaultDict, defaultSpanId)

\* the writer as the loop over cgList left it, before the pass: the spans and
\* entries of the groups
WriterBeforePass(w, grouped) ==
  [w EXCEPT !.spans = SubSeq(w.spans, 1, Len(w.spans) - (Len(w.staged) - grouped)),
            !.staged = SubSeq(w.staged, 1, grouped)]

\* the chunks arc.iterate hands to the callback
IterateChunks(f) == {ReaderGet(f, f.chunks[i].h) : i \in 1..Len(f.chunks)}

\* a variant that takes the chunk count of the archive's origin table file
UnBuildOriginCount ==
  /\ pc = "loop"
  /\ op = "unarchive"
  /\ fi <= Len(allFiles)
  /\ isArchive(allFiles[fi])
  /\ \E f \in FileAt(gen, allFiles[fi]) :
       /\ b' = [B0 EXCEPT !.tf = allFiles[fi], !.chkCnt = Len(allFiles[fi].origin),
                          !.name = TF(SortedSeq(IterateChunks(f))),
                          !.m0 = manifest]
       /\ pc' = "unflush"
       /\ UNCHANGED <<storeVars, inVars, callVars, loopVars, cancelled, ret, progress, arcW, par>>

\* arc.count, NewCmpChunkTableWriter, arc.iterate with AddChunk, and Finish
UnBuild ==
  /\ pc = "loop"
  /\ op = "unarchive"
  /\ fi <= Len(allFiles)
  /\ isArchive(allFiles[fi])
  /\ \E f \in FileAt(gen, allFiles[fi]), readOk \in BOOLEAN :
       IF readOk
         THEN /\ b' = [B0 EXCEPT !.tf = allFiles[fi], !.chkCnt = Len(f.chunks),
                                 !.name = TF(SortedSeq(IterateChunks(f))),
                                 !.m0 = manifest]
              /\ pc' = "unflush"
              /\ UNCHANGED <<storeVars, inVars, callVars, loopVars, cancelled, ret, progress,
                             arcW, par>>
         ELSE Return("readError", {})

\* a variant that goes on to the swap without the file written
UnFlushSkipped ==
  /\ pc = "unflush"
  /\ pc' = "unswap"
  /\ UNCHANGED <<storeVars, inVars, callVars, loopVars, cancelled, ret, progress, b, arcW, par>>

\* classicTable.FlushToFile(filepath.Join(outPath, newId))
UnFlush ==
  /\ pc = "unflush"
  /\ \E writeOk \in BOOLEAN :
       IF writeOk
         THEN /\ disk' = OtherFiles(gen, b.name) \cup {File(gen, b.name, <<>>, <<>>)}
              /\ pc' = "unswap"
              /\ UNCHANGED <<manifest, inVars, callVars, loopVars, cancelled, ret, progress,
                             b, arcW, par>>
         ELSE Return("writeError", {})

\* toSpecs, the new spec list and swapTables
UnSwap ==
  /\ pc = "unswap"
  /\ \E out \in SwapOutcomes :
       LET specs == toSpecs(gen)
           newSpecs == NewSpecs(specs, b.tf, b.name, b.chkCnt)
           purgeFile == IF HasSpec(specs, b.tf) THEN b.tf ELSE NoName
       IN IF out = "ok"
            THEN /\ manifest' = [manifest EXCEPT ![gen] = newSpecs]
                 /\ b' = [b EXCEPT !.purgeFile = purgeFile]
                 /\ pc' = "purge"
                 /\ UNCHANGED <<disk, inVars, callVars, loopVars, cancelled, ret, progress,
                                arcW, par>>
            ELSE Return(SwapError(out), {})

\* a variant in which a failed os.Remove ends the call with the error
UnPurgeFatal ==
  /\ pc = "purge"
  /\ op = "unarchive"
  /\ \E removeOk \in BOOLEAN :
       IF removeOk /\ FileAt(gen, b.purgeFile) # {}
         THEN /\ disk' = OtherFiles(gen, b.purgeFile)
              /\ progress' = progress
              /\ NextFile
              /\ UNCHANGED manifest
         ELSE Return("removeError", {})

\* os.Remove(purgeFile), always called; a failure is reported and the loop goes on
UnPurge ==
  /\ pc = "purge"
  /\ op = "unarchive"
  /\ \E removeOk \in BOOLEAN :
       IF removeOk /\ FileAt(gen, b.purgeFile) # {}
         THEN /\ disk' = OtherFiles(gen, b.purgeFile)
              /\ progress' = progress
         ELSE /\ disk' = disk
              /\ progress' = progress \cup {Msg("Failed to purge.", 0)}
  /\ NextFile
  /\ UNCHANGED manifest

\* ------------------------------------------------------------ environment
\* the pass as ParStart leaves it: no goroutine has taken a step
PassFresh ==
  /\ par.dist = "run"
  /\ par.left = b.allChunks
  /\ par.workCh = <<>>
  /\ \A i \in 1..workerCount : par.w[i] = "recv"

\* The caller cancels the context of the running call.  The code reads the
\* caller's context in convertToChunkGroups and in the loop over cgList only;
\* a cancellation is taken where it can first be seen: at one of these two
\* places or, no goroutine of the parallel pass reading the caller's context,
\* at the start of the pass, which then runs cancelled as a whole.
Cancel ==
  /\ \/ pc = "groups" /\ dagGroups # {}
     \/ pc = "matgroups" /\ b.gi <= Len(b.cgList)
     \/ pc = "workers" /\ PassFresh
  /\ ~cancelled
  /\ cancelled' = TRUE
  /\ UNCHANGED <<storeVars, inVars, callVars, loopVars, pc, ret, progress, b, arcW, par>>

Next ==
  \/ \E p \in BOOLEAN : Start("archive", p)
  \/ Start("unarchive", FALSE)
  \/ NotGenerational
  \/ BeginStore
  \/ EndStore
  \/ ArcSkip
  \/ ArcEnter
  \/ ArcGather
  \/ ArcGroupsCancel
  \/ ArcGroupsHang
  \/ ArcGroups
  \/ ArcDefaultSpan
  \/ WriteDataStart
  \/ ArcGroup
  \/ ParStart
  \/ DistSend
  \/ DistClose
  \/ DistDone
  \/ \E i \in 1..workerCount : WorkerRecv(i)
  \/ \E i \in 1..workerCount : WorkerSend(i)
  \/ \E i \in 1..workerCount : WorkerExit(i)
  \/ \E i \in 1..workerCount : WorkerDone(i)
  \/ DrainRecv
  \/ DrainExit
  \/ DrainDone
  \/ WorkersWaited
  \/ EgWait
  \/ WriterStep
  \/ ArcFlush
  \/ ArcCount
  \/ ArcStat
  \/ Corrupt
  \/ ArcVerify
  \/ ArcSwap
  \/ ArcPurge
  \/ UnSkip
  \/ UnBuild
  \/ UnFlush
  \/ UnSwap
  \/ UnPurge
  \/ Cancel

Spec == Init /\ [][Next]_vars

\* ------------------------------------------------ scheduling of the pass
\* the goroutines of compressChunksInParallel
Distributor == DistSend \/ DistClose \/ DistDone

Worker(i) == WorkerRecv(i) \/ WorkerSend(i) \/ WorkerExit(i) \/ WorkerDone(i)

Drain == DrainRecv \/ DrainExit \/ DrainDone

\* the caller, in workerGroup.Wait() and eg.Wait()
Waiter == WorkersWaited \/ EgWait

\* the Go scheduler runs every goroutine that can take a step; the consumer
\* of the progress channel receives every message (the send is part of DrainRecv)
SpecFair ==
  /\ Init
  /\ [][Next]_vars
  /\ WF_vars(Distributor)
  /\ \A i \in 1..workerCount : WF_vars(Worker(i))
  /\ WF_vars(Drain)
  /\ WF_vars(Waiter)

\* ------------------------------------------- the group writer on one table
\* a table file that holds every hash once
GroupTable == [i \in 1..MaxHash |-> i]

\* BuildArchive on a store whose newGen lists the journal and GroupTable, with
\* relation groups among all its hashes, chunks of two raw sizes, and at least
\* one group that is worth its dictionary
InitGroups ==
  /\ manifest = [g \in Gens |->
                   IF g = "newGen"
                     THEN <<TableSpec(Journal, 1), TableSpec(TF(GroupTable), Len(GroupTable))>>
                     ELSE <<>>]
  /\ disk = {File("newGen", TF(GroupTable), <<>>, <<>>)}
  /\ isGen = TRUE
  /\ dagGroups \in GroupSetsOver(Hashes)
  /\ dagGroups # {}
  /\ cr = RelationsOf(dagGroups)
  /\ added = PairsOf(dagGroups)
  /\ sz \in [raw : [Hashes -> {RawSize, BigRaw}], grp : [Hashes -> 1..MaxCmp],
             def : [Hashes -> {MaxCmp}]]
  /\ \A h \in Hashes : h \notin UNION dagGroups => sz.grp[h] = MaxCmp /\ sz.raw[h] = RawSize
  /\ \E g \in dagGroups : GroupPays(rebuild(g, GroupTable, <<>>))
  /\ op = "none"
  /\ purge = FALSE
  /\ runs = 0
  /\ pc = "idle"
  /\ gen = "newGen"
  /\ allFiles = <<>>
  /\ fi = 0
  /\ cancelled = FALSE
  /\ ret = "none"
  /\ progress = {}
  /\ b = B0
  /\ arcW = W0
  /\ par = P0
  /\ padIn = <<>>
  /\ padOut = <<>>
  /\ cas = NoArgs
  /\ cmp = NoCmp
  /\ it = NoCmp

NextGroups ==
  \/ Start("archive", FALSE)
  \/ BeginStore
  \/ EndStore
  \/ ArcSkip
  \/ ArcEnter
  \/ ArcGather
  \/ ArcGroups
  \/ ArcDefaultSpan
  \/ WriteDataStart
  \/ ArcGroup
  \/ ParStart
  \/ DistSend
  \/ DistClose
  \/ \E i \in 1..workerCount : WorkerRecv(i)
  \/ \E i \in 1..workerCount : WorkerSend(i)
  \/ \E i \in 1..workerCount : WorkerExit(i)
  \/ DrainRecv
  \/ DrainExit
  \/ WorkersWaited
  \/ EgWait
  \/ WriterStep
  \/ ArcFlush
  \/ ArcCount
  \/ ArcStat
  \/ ArcVerify
  \/ ArcSwap
  \/ ArcPurge

SpecGroups == InitGroups /\ [][NextGroups]_vars

\* ------------------------------------------------ building the relations
\* the caller of BuildArchive fills a new ChunkRelations pair by pair
InitRel ==
  /\ manifest = [g \in Gens |-> IF g = "newGen" THEN <<TableSpec(Journal, 1)>> ELSE <<>>]
  /\ disk = {}
  /\ isGen = TRUE
  /\ cr = CR0
  /\ added = {}
  /\ dagGroups = groups(cr)
  /\ sz = [raw |-> [h \in Hashes |-> RawSize], grp |-> [h \in Hashes |-> MaxCmp],
           def |-> [h \in Hashes |-> MaxCmp]]
  /\ op = "none"
  /\ purge = FALSE
  /\ runs = 0
  /\ pc = "idle"
  /\ gen = "newGen"
  /\ allFiles = <<>>
  /\ fi = 0
  /\ cancelled = FALSE
  /\ ret = "none"
  /\ progress = {}
  /\ b = B0
  /\ arcW = W0
  /\ par = P0
  /\ padIn = <<>>
  /\ padOut = <<>>
  /\ cas = NoArgs
  /\ cmp = NoCmp
  /\ it = NoCmp

\* cr.Add(a, b)
RelAdd(ha, hb) ==
  /\ pc = "idle"
  /\ runs = 0
  /\ Cardinality(added \cup {{ha, hb}}) <= MaxAdds
  /\ cr' = Add(cr, ha, hb)
  /\ added' = added \cup {{ha, hb}}
  /\ dagGroups' = groups(cr')
  /\ UNCHANGED <<storeVars, isGen, sz, padIn, padOut, cas, cmp, it, callVars, loopVars, pc, cancelled, ret,
                 progress, b, arcW, par>>

NextRel == \E ha, hb \in Hashes : RelAdd(ha, hb)

SpecRel == InitRel /\ [][NextRel]_vars

\* ------------------------------------------------------------- padSamples
\* the longest chunk list handed to padSamples
MaxPad == 8

\* the chunk lists handed to padSamples: up to MaxPad chunks, repeats allowed
PadInputs == UNION {[1..n -> 1..2] : n \in 0..MaxPad}

\* padSamples(chks) is called: samples := []*chunks.Chunk{}
InitPad ==
  /\ manifest = [g \in Gens |-> IF g = "newGen" THEN <<TableSpec(Journal, 1)>> ELSE <<>>]
  /\ disk = {}
  /\ isGen = TRUE
  /\ cr = CR0
  /\ added = {}
  /\ dagGroups = {}
  /\ sz = [raw |-> [h \in Hashes |-> RawSize], grp |-> [h \in Hashes |-> MaxCmp],
           def |-> [h \in Hashes |-> MaxCmp]]
  /\ op = "none"
  /\ purge = FALSE
  /\ runs = 0
  /\ pc = "pad"
  /\ gen = "newGen"
  /\ allFiles = <<>>
  /\ fi = 0
  /\ cancelled = FALSE
  /\ ret = "none"
  /\ progress = {}
  /\ b = B0
  /\ arcW = W0
  /\ par = P0
  /\ padIn \in PadInputs
  /\ padOut = <<>>
  /\ cas = NoArgs
  /\ cmp = NoCmp
  /\ it = NoCmp

\* a variant that appends one chunk at a time
PadAppendOne ==
  /\ pc = "pad"
  /\ Len(padOut) < padMin
  /\ padOut' = IF padIn = <<>> THEN padOut
               ELSE Append(padOut, padIn[(Len(padOut) % Len(padIn)) + 1])
  /\ UNCHANGED <<storeVars, isGen, dagGroups, cr, added, sz, padIn, cas, cmp, it, callVars,
                 loopVars, pc,
                 cancelled, ret, progress, b, arcW, par>>

\* for len(samples) < 7 { for _, c := range chks { samples = append(samples, c) } }:
\* one turn of the outer loop
PadAppend ==
  /\ pc = "pad"
  /\ Len(padOut) < padMin
  /\ padOut' = padOut \o padIn
  /\ UNCHANGED <<storeVars, isGen, dagGroups, cr, added, sz, padIn, cas, cmp, it, callVars,
                 loopVars, pc,
                 cancelled, ret, progress, b, arcW, par>>

\* return samples
PadReturn ==
  /\ pc = "pad"
  /\ Len(padOut) >= padMin
  /\ pc' = "padded"
  /\ UNCHANGED <<storeVars, inVars, callVars, loopVars, cancelled, ret, progress, b, arcW, par>>

NextPad == PadAppend \/ PadReturn

SpecPad == InitPad /\ [][NextPad]_vars

\* ------------------------------------------- admin compare-and-swap-storage
\* what --from and --to may be: the address of a table file, or no address
CasArgs == {TF(idx) : idx \in Catalog} \cup {InvalidAddr}

\* a store with its table files listed and on disk, and files beside them in
\* the directory that the manifest does not list
InitCas ==
  /\ \E ts \in TableLists, extra \in SUBSET {TF(idx) : idx \in IdxSeqs(2)} :
       /\ manifest = [g \in Gens |->
                        IF g = "newGen" THEN <<TableSpec(Journal, 1)>> \o SpecsOf(ts) ELSE <<>>]
       /\ disk = {File("newGen", TF(ts[i]), <<>>, <<>>) : i \in 1..Len(ts)}
                 \cup {File("newGen", a, <<>>, <<>>) : a \in extra}
  /\ isGen = TRUE
  /\ cr = CR0
  /\ added = {}
  /\ dagGroups = {}
  /\ sz = [raw |-> [h \in Hashes |-> RawSize], grp |-> [h \in Hashes |-> MaxCmp],
           def |-> [h \in Hashes |-> MaxCmp]]
  /\ op = "none"
  /\ purge = FALSE
  /\ runs = 0
  /\ pc = "idle"
  /\ gen = "newGen"
  /\ allFiles = <<>>
  /\ fi = 0
  /\ cancelled = FALSE
  /\ ret = "none"
  /\ progress = {}
  /\ b = B0
  /\ arcW = W0
  /\ par = P0
  /\ padIn = <<>>
  /\ padOut = <<>>
  /\ cas = NoArgs
  /\ cmp = NoCmp
  /\ it = NoCmp

\* the address is a container address and its file is in the directory
CasPresent(a) == a.k \in {"tf", "darc"} /\ FileAt("newGen", a) # {}

\* a variant that swaps whenever --from is listed, whatever --to is
CompareAndSwapUnchecked(from, to) ==
  /\ pc = "idle"
  /\ runs < MaxRuns
  /\ runs' = runs + 1
  /\ op' = "cas"
  /\ cas' = [from |-> from, to |-> to]
  /\ IF HasSpec(manifest["newGen"], from)
       THEN /\ manifest' = [manifest EXCEPT
                              !["newGen"] = NewSpecs(manifest["newGen"], from, to, Len(to.idx))]
            /\ ret' = "exit 0"
       ELSE /\ manifest' = manifest
            /\ ret' = "exit 1"
  /\ UNCHANGED <<disk, isGen, dagGroups, cr, added, sz, padIn, padOut, cmp, it, purge, loopVars, pc,
                 cancelled, progress, b, arcW, par>>

\* dolt admin compare-and-swap-storage --from <addr> --to <addr>: from is
\* replaced by to in the manifest if both are present in the directory; the
\* exit status is non-zero on an invalid or missing address
CompareAndSwap(from, to) ==
  /\ pc = "idle"
  /\ runs < MaxRuns
  /\ runs' = runs + 1
  /\ op' = "cas"
  /\ cas' = [from |-> from, to |-> to]
  /\ IF CasPresent(from) /\ CasPresent(to)
       THEN /\ manifest' = [manifest EXCEPT
                              !["newGen"] = NewSpecs(manifest["newGen"], from, to, Len(to.idx))]
            /\ ret' = "exit 0"
       ELSE /\ manifest' = manifest
            /\ ret' = "exit 1"
  /\ UNCHANGED <<disk, isGen, dagGroups, cr, added, sz, padIn, padOut, cmp, it, purge, loopVars, pc,
                 cancelled, progress, b, arcW, par>>

NextCas == \E from, to \in CasArgs : CompareAndSwap(from, to)

SpecCas == InitCas /\ [][NextCas]_vars

\* ------------------------------------------------------ admin debug-compare
\* searchDirs of loadChunkSource, in the order they are tried
SearchDirs == <<"oldgen", "noms">>

\* the files a directory may hold for one address: <addr> and <addr>.darc
Forms == {"table", "darc"}

\* the indexes the files compared may have
CmpIdx == {<<1>>, <<1, 2>>, <<2, 2>>, <<2, 3>>}

\* the rest of the state during debug-compare
CmpRest ==
  /\ manifest = [g \in Gens |-> IF g = "newGen" THEN <<TableSpec(Journal, 1)>> ELSE <<>>]
  /\ disk = {}
  /\ isGen = TRUE
  /\ cr = CR0
  /\ added = {}
  /\ dagGroups = {}
  /\ sz = [raw |-> [h \in Hashes |-> RawSize], grp |-> [h \in Hashes |-> MaxCmp],
           def |-> [h \in Hashes |-> MaxCmp]]
  /\ op = "none"
  /\ purge = FALSE
  /\ runs = 0
  /\ gen = "newGen"
  /\ allFiles = <<>>
  /\ fi = 0
  /\ ret = "none"
  /\ progress = {}
  /\ b = B0
  /\ arcW = W0
  /\ par = P0
  /\ padIn = <<>>
  /\ padOut = <<>>
  /\ cas = NoArgs

\* debug-compare <addr1> <addr2> is started: for each of the two addresses,
\* the files each directory holds and the index of its table file and of its
\* archive
InitCmp ==
  /\ CmpRest
  /\ cancelled = FALSE
  /\ pc = "cmp"
  /\ it = NoCmp
  /\ \E has \in [1..2 -> [{"oldgen", "noms"} -> SUBSET Forms]],
        tbl \in [1..2 -> CmpIdx], darc \in [1..2 -> CmpIdx] :
       cmp = [st |-> "start", has |-> has, tbl |-> tbl, darc |-> darc,
              kind |-> [c \in 1..2 |-> "none"], hashes |-> [c \in 1..2 |-> {}],
              common |-> 0, onlyIn1 |-> 0, onlyIn2 |-> 0, match |-> FALSE]

\* loadChunkSource: the directories are tried in order; in each the table
\* file is looked for first, then the archive; "none" is file not found
loadChunkSource(has) ==
  LET found == {i \in 1..Len(SearchDirs) : has[SearchDirs[i]] # {}}
  IN IF found = {} THEN "none"
     ELSE IF "table" \in has[SearchDirs[Least(found)]] THEN "table" ELSE "archive"

\* compareTableFiles: both sources are loaded; an error ends the command
CmpLoad ==
  /\ pc = "cmp"
  /\ cmp.st = "start"
  /\ LET kind == [c \in 1..2 |-> loadChunkSource(cmp.has[c])]
     IN IF \E c \in 1..2 : kind[c] = "none"
          THEN cmp' = [cmp EXCEPT !.st = "failed"]
          ELSE cmp' = [cmp EXCEPT !.st = "loaded", !.kind = kind]
  /\ UNCHANGED <<storeVars, isGen, dagGroups, cr, added, sz, padIn, padOut, cas, it, callVars,
                 loopVars, pc, cancelled, ret, progress, b, arcW, par>>

\* the index of the source loaded for address c
CmpSource(c) == IF cmp.kind[c] = "table" THEN cmp.tbl[c] ELSE cmp.darc[c]

\* compareTableFiles: iterateAllChunksFast over each source with the callback
\* hashes[h] = true; an iteration error ends the command
CmpCollect ==
  /\ pc = "cmp"
  /\ cmp.st = "loaded"
  /\ \E iterOk \in BOOLEAN :
       IF iterOk
         THEN cmp' = [cmp EXCEPT !.st = "collected",
                                 !.hashes = [c \in 1..2 |-> Range(CmpSource(c))]]
         ELSE cmp' = [cmp EXCEPT !.st = "failed"]
  /\ UNCHANGED <<storeVars, isGen, dagGroups, cr, added, sz, padIn, padOut, cas, it, callVars,
                 loopVars, pc, cancelled, ret, progress, b, arcW, par>>

\* a variant that reports a match when nothing is only in the first source
compareChunkHashesOneSided(hashes1, hashes2) ==
  LET common == {h \in hashes1 : h \in hashes2}
      onlyIn1 == {h \in hashes1 : h \notin hashes2}
      onlyIn2 == {h \in hashes2 : h \notin hashes1}
  IN [common |-> Cardinality(common), onlyIn1 |-> Cardinality(onlyIn1),
      onlyIn2 |-> Cardinality(onlyIn2), match |-> Cardinality(onlyIn1) = 0]

\* compareChunkHashes: the three lists, their lengths, and the line
\* "All chunks match" when both difference lists are empty
compareChunkHashes(hashes1, hashes2) ==
  LET common == {h \in hashes1 : h \in hashes2}
      onlyIn1 == {h \in hashes1 : h \notin hashes2}
      onlyIn2 == {h \in hashes2 : h \notin hashes1}
  IN [common |-> Cardinality(common), onlyIn1 |-> Cardinality(onlyIn1),
      onlyIn2 |-> Cardinality(onlyIn2),
      match |-> Cardinality(onlyIn1) = 0 /\ Cardinality(onlyIn2) = 0]

\* compareTableFiles: return compareChunkHashes(hashes1, hashes2, ...)
CmpReport ==
  /\ pc = "cmp"
  /\ cmp.st = "collected"
  /\ LET r == compareChunkHashes(cmp.hashes[1], cmp.hashes[2])
     IN cmp' = [cmp EXCEPT !.st = "done", !.common = r.common, !.onlyIn1 = r.onlyIn1,
                           !.onlyIn2 = r.onlyIn2, !.match = r.match]
  /\ UNCHANGED <<storeVars, isGen, dagGroups, cr, added, sz, padIn, padOut, cas, it, callVars,
                 loopVars, pc, cancelled, ret, progress, b, arcW, par>>

NextCmp == CmpLoad \/ CmpCollect \/ CmpReport

SpecCmp == InitCmp /\ [][NextCmp]_vars

\* ------------------------------ chunkSourceAdapter.IterateAllChunksFast
\* IterateAllChunksFast(ctx, cb, stats) is called on a source with one of the
\* indexes of Catalog; the caller's context may be done already
InitIter ==
  /\ CmpRest
  /\ pc = "iter"
  /\ cmp = NoCmp
  /\ cancelled \in BOOLEAN
  /\ \E idx \in Catalog :
       it = [st |-> "run", ph |-> "top", idx |-> idx, i |-> 0, calls |-> <<>>, err |-> "none"]

\* the caller's context is cancelled while the iteration runs
IterCancel ==
  /\ it.st = "run"
  /\ ~cancelled
  /\ cancelled' = TRUE
  /\ UNCHANGED <<storeVars, inVars, callVars, loopVars, pc, ret, progress, b, arcW, par>>

\* a variant whose loop does not look at the context
IterTopNoCtx ==
  /\ it.st = "run"
  /\ it.ph = "top"
  /\ IF it.i >= Len(it.idx)
       THEN it' = [it EXCEPT !.st = "returned", !.err = "nil"]
       ELSE it' = [it EXCEPT !.ph = "body"]
  /\ UNCHANGED <<storeVars, isGen, dagGroups, cr, added, sz, padIn, padOut, cas, cmp, callVars,
                 loopVars, pc, cancelled, ret, progress, b, arcW, par>>

\* for i := uint32(0); i < count; i++ { if ctx.Err() != nil { return ctx.Err() }:
\* the loop condition and the test of the context
IterTop ==
  /\ it.st = "run"
  /\ it.ph = "top"
  /\ IF it.i >= Len(it.idx)
       THEN it' = [it EXCEPT !.st = "returned", !.err = "nil"]
       ELSE IF cancelled
         THEN it' = [it EXCEPT !.st = "returned", !.err = "ctxError"]
         ELSE it' = [it EXCEPT !.ph = "body"]
  /\ UNCHANGED <<storeVars, isGen, dagGroups, cr, added, sz, padIn, padOut, cas, cmp, callVars,
                 loopVars, pc, cancelled, ret, progress, b, arcW, par>>

\* the body of the loop: indexEntry, tableReader.get, NewChunkWithHash and the
\* callback; the first error is returned
IterBody ==
  /\ it.st = "run"
  /\ it.ph = "body"
  /\ \E out \in {"ok", "indexError", "readError", "cbError"} :
       LET h == it.idx[it.i + 1]
           call == [h |-> h, chunk |-> SourceGet(it.idx, h)]
       IN IF out \in {"indexError", "readError"}
            THEN it' = [it EXCEPT !.st = "returned", !.err = out]
            ELSE IF out = "cbError"
              THEN it' = [it EXCEPT !.st = "returned", !.err = out,
                                    !.calls = Append(it.calls, call)]
              ELSE it' = [it EXCEPT !.ph = "top", !.i = it.i + 1,
                                    !.calls = Append(it.calls, call)]
  /\ UNCHANGED <<storeVars, isGen, dagGroups, cr, added, sz, padIn, padOut, cas, cmp, callVars,
                 loopVars, pc, cancelled, ret, progress, b, arcW, par>>

NextIter == IterCancel \/ IterTop \/ IterBody

SpecIter == InitIter /\ [][NextIter]_vars

\* the hashes connected to those of S through the pairs P
RECURSIVE Closure(_, _)
Closure(S, P) ==
  LET T == S \cup UNION {p \in P : p \cap S # {}}
  IN IF T = S THEN S ELSE Closure(T, P)

\* the connected components of the pairs P
Components(P) == {Closure({h}, P) : h \in UNION P}

\* =================================================================== claims
\* C1: in archiveSingleBlockStore the manifest is swapped only by the step that
\* follows a verifyAllChunks without error on the archive just written, which
\* still verifies when the swap is made; a verification that fails returns the
\* error with the manifest as it was before the container's build, and the
\* manifest does not change afterwards.
C1_SwapOnlyAfterVerify ==
  [][/\ (op = "archive" /\ manifest' # manifest) =>
          /\ pc = "swap"
          /\ \E f \in FileAt(gen, b.name) : verifyAllChunks(b.idx, f)
     /\ (pc = "verify" /\ pc' # "verify" /\ pc' # "swap") =>
          /\ ret' \in {"verifyError", "readError"}
          /\ pc' = "idle"
          /\ manifest = b.m0
          /\ manifest' = manifest
     /\ (pc = "verify" /\ \A f \in FileAt(gen, b.name) : ~verifyAllChunks(b.idx, f)) =>
          pc' # "swap"
     /\ ret = "verifyError" => manifest' = manifest]_vars

\* an archive has been verified and swapped in place of its table file
C1_Witness ==
  /\ op = "archive"
  /\ pc = "purge"
  /\ HasSpec(manifest[gen], b.name)
  /\ ~HasSpec(manifest[gen], b.tf)
  /\ \E f \in FileAt(gen, b.name) : verifyAllChunks(b.idx, f)

\* C2: for each converted container the file is flushed, then the manifest is
\* swapped, then the obsolete file is removed: a swap adds only names whose
\* file is at its final path and touches no file; a file is removed only by the
\* step after the successful swap, when the manifest lists its replacement and
\* no longer lists it.  Both for BuildArchive and for UnArchive.
C2_FlushSwapRemove ==
  [][/\ manifest' # manifest =>
          /\ pc \in {"swap", "unswap"}
          /\ disk' = disk
          /\ \A i \in 1..Len(manifest'[gen]) :
               \/ HasSpec(manifest[gen], manifest'[gen][i].name)
               \/ FileAt(gen, manifest'[gen][i].name) # {}
     /\ \A f \in disk :
          (\A f2 \in disk' : ~(f2.g = f.g /\ f2.name = f.name)) =>
             /\ pc = "purge"
             /\ manifest' = manifest
             /\ f.g = gen
             /\ f.name = b.tf
             /\ ~HasSpec(manifest[gen], f.name)
             /\ HasSpec(manifest[gen], b.name)
             /\ FileAt(gen, b.name) # {}
             /\ (op = "archive" => ~isArchive(f.name))
             /\ (op = "unarchive" => isArchive(f.name))]_vars

\* an archive has been unarchived: the table file is listed and on disk, the
\* .darc is gone
C2_Witness ==
  /\ op = "unarchive"
  /\ pc = "loop"
  /\ fi > 1
  /\ isArchive(allFiles[fi - 1])
  /\ FileAt(gen, allFiles[fi - 1]) = {}
  /\ ~HasSpec(manifest[gen], allFiles[fi - 1])
  /\ \E i \in 1..Len(manifest[gen]) :
       /\ ~isArchive(manifest[gen][i].name)
       /\ ~isJournalAddr(manifest[gen][i].name)
       /\ FileAt(gen, manifest[gen][i].name) # {}

\* C3: from the moment the archive file is on disk until swapTables has
\* completed, the manifest is the manifest of before the container's build: it
\* lists the classic table file and has no reference to the archive.
C3_ManifestUntouchedBeforeSwap ==
  (op = "archive" /\ pc \in {"count", "stat", "verify", "swap"}) =>
     /\ manifest = b.m0
     /\ HasSpec(manifest[gen], b.tf)
     /\ \A g \in Gens : ~HasSpec(manifest[g], b.name)

\* the archive is on disk, verified, and the swap has not been made
C3_Witness ==
  /\ op = "archive"
  /\ pc = "swap"
  /\ FileAt(gen, b.name) # {}
  /\ isArchive(b.name)

C5_RoundTrip ==
  (op = "archive" /\ pc \in {"count", "stat"}) =>
     /\ FileAt(gen, b.name) # {}
     /\ \A f \in FileAt(gen, b.name) : \A i \in 1..Len(b.idx) :
          LET h == b.idx[i] IN
            /\ Cardinality(EntriesFor(f, h)) = 1
            /\ \A n \in EntriesFor(f, h) :
                 /\ f.chunks[n].dict \in 1..Len(f.spans)
                 /\ f.chunks[n].data \in 1..Len(f.spans)
                 /\ DecompressDict(f.spans[f.chunks[n].data],
                                   DecompressDictionary(f.spans[f.chunks[n].dict]))
                      = CacheGet(b.idx, h)
            /\ ReaderGet(f, h) # Nil
            /\ HashOf(ReaderGet(f, h)) = h

\* an archive has been written with a chunk under a group dictionary and a
\* chunk under the default dictionary
C5_Witness ==
  /\ op = "archive"
  /\ pc = "count"
  /\ \E i, j \in 1..Len(arcW.staged) :
       /\ arcW.staged[i].dict = b.defaultSpanId
       /\ arcW.staged[j].dict # b.defaultSpanId

\* C6: a parallel pass that runs with the caller's context cancelled does not
\* complete: compressChunksInParallel returns an error and the build ends
\* with it.
C6_CancelledPassAborts ==
  [][(cancelled /\ pc = "egwait" /\ pc' # "egwait") =>
        /\ pc' = "idle"
        /\ ret' \notin {"none", "nil"}]_vars

\* C7: no archive file appears at a final path once the build is cancelled or
\* in a step that returns an error; a file appears at a final path only by the
\* flush that ends the build.
C7_NoArchiveLeftBehind ==
  [][(\E f \in disk' : /\ isArchive(f.name)
                       /\ \A f2 \in disk : ~(f2.g = f.g /\ f2.name = f.name)) =>
        /\ ~cancelled
        /\ pc = "finalize"
        /\ pc' = "count"
        /\ ret' = "none"]_vars

\* C8: when verifyAllChunks fails on the archive just written (a hash missing,
\* nil data or a hash mismatch), the file is not at its final path any more
\* when archiveSingleBlockStore returns the error.
C8_VerifyFailureDiscardsFile ==
  [][(/\ pc = "verify"
      /\ ret' = "verifyError"
      /\ \E f \in FileAt(gen, b.name) : ~verifyAllChunks(b.idx, f)) =>
        \A f \in disk' : ~(f.g = gen /\ f.name = b.name)]_vars

\* C9: once the data is written, a group's dictionary span is in the archive
\* if and only if the group's totalBytesSavedWDict (raw bytes minus the bytes
\* compressed with the group dictionary minus the compressed dictionary) is
\* strictly greater than its totalBytesSavedDefaultDict; the chunks of a group
\* that passes are staged against that span, the chunks of a group that fails
\* against the default dictionary span.
C9_GroupMaterializedIffPays ==
  (op = "archive" /\ pc \in {"finalize", "count", "stat"}) =>
     \A i \in 1..Len(b.cgList) :
       LET cg == b.cgList[i]
           ids == {cg.chks[j].chunkId : j \in 1..Len(cg.chks)}
           own == cg.totalBytesSavedWDict > cg.totalBytesSavedDefaultDict
           dictSpans == {n \in 1..Len(arcW.spans) : arcW.spans[n] = CompressDictionary(cg.dict)}
       IN /\ cg.totalBytesSavedWDict
               = SumOver(sz.raw, ids) - SumOver(sz.grp, ids) - DictCmpSize
          /\ cg.totalBytesSavedDefaultDict = SumOver(sz.raw, ids) - SumOver(sz.def, ids)
          /\ own <=> dictSpans # {}
          /\ \A h \in ids :
               /\ \E n \in 1..Len(arcW.staged) : arcW.staged[n].h = h
               /\ \A n \in 1..Len(arcW.staged) :
                    arcW.staged[n].h = h =>
                      IF own THEN arcW.staged[n].dict \in dictSpans
                      ELSE arcW.staged[n].dict = b.defaultSpanId

\* the data is written of a container with a group whose two savings are equal
C9_Witness ==
  /\ op = "archive"
  /\ pc = "finalize"
  /\ \E i \in 1..Len(b.cgList) :
       /\ Len(b.cgList[i].chks) > 1
       /\ b.cgList[i].totalBytesSavedWDict = b.cgList[i].totalBytesSavedDefaultDict

\* C10: the chunk count convertTableFileToArchive returns is the number of
\* distinct hashes of the source index: at most idx.chunkCount(), equal to it
\* exactly when no hash is listed twice, and when it is smaller the diagnostic
\* with the difference has been sent on the progress channel.
C10_ChunkCountIsDistinctHashes ==
  (op = "archive" /\ pc = "stat") =>
     /\ b.chkCnt = Cardinality(Range(b.idx))
     /\ b.chkCnt = Len(arcW.staged)
     /\ b.chkCnt <= Len(b.idx)
     /\ b.chkCnt = Len(b.idx) <=> (\A i, j \in 1..Len(b.idx) : b.idx[i] = b.idx[j] => i = j)
     /\ b.chkCnt < Len(b.idx) =>
          Msg("Chunk count mismatch. Duplicate chunks", Len(b.idx) - b.chkCnt) \in progress

\* a container whose index lists a hash twice has been converted
C10_Witness ==
  /\ op = "archive"
  /\ pc = "stat"
  /\ b.chkCnt < Len(b.idx)
  /\ b.chkCnt > 1

\* C11: the chunk count the manifest records for an archive is the number of
\* index entries staged into it: the group chunks staged by writeDataToArchive
\* plus the chunks staged by the drain, whatever the interleaving of the pass.
C11_ManifestCountIsStagedCount ==
  /\ \A g \in Gens : \A i \in 1..Len(manifest[g]) :
       isArchive(manifest[g][i].name) =>
         manifest[g][i].cnt = Len(manifest[g][i].name.chunks)
  /\ (op = "archive" /\ pc = "purge") =>
       /\ \E i \in 1..Len(manifest[gen]) :
            manifest[gen][i] = TableSpec(b.name, Len(arcW.staged))
       /\ Len(arcW.staged) = b.grouped + b.singles
       /\ b.grouped = Cardinality({n \in 1..Len(arcW.staged) :
                                     arcW.staged[n].dict # b.defaultSpanId})
       /\ b.singles = Cardinality({n \in 1..Len(arcW.staged) :
                                     arcW.staged[n].dict = b.defaultSpanId})

\* an archive with group chunks and drain chunks is listed in the manifest
C11_Witness ==
  /\ op = "archive"
  /\ pc = "purge"
  /\ b.grouped > 0
  /\ b.singles > 0
  /\ HasSpec(manifest[gen], b.name)

\* C12: on the not-enough-chunks condition archiveSingleBlockStore sends the
\* diagnostic, leaves the manifest and the files as they are, goes on to the
\* next container and returns no error for it.
C12_NotEnoughChunksSkips ==
  [][(/\ pc = "gather"
      /\ pc' # "gather"
      /\ Len(gatherAllChunks(b.idx)) < minSamples
      /\ ret' # "readError") =>
        /\ Msg("Not enough chunks. Skipping.", 0) \in progress'
        /\ manifest' = manifest
        /\ disk' = disk
        /\ HasSpec(manifest'[gen], b.tf)
        /\ FileAt(gen, b.tf) # {}
        /\ pc' = "loop"
        /\ fi' = fi + 1
        /\ allFiles' = allFiles
        /\ ret' = "none"]_vars

\* a call has skipped one container for want of chunks, archived another and
\* returned nil
C12_Witness ==
  /\ op = "archive"
  /\ runs = 1
  /\ pc = "idle"
  /\ ret = "nil"
  /\ Msg("Not enough chunks. Skipping.", 0) \in progress
  /\ \E g \in Gens : \E i \in 1..Len(manifest[g]) : isArchive(manifest[g][i].name)
  /\ \E g \in Gens : \E i \in 1..Len(manifest[g]) :
       /\ ~isArchive(manifest[g][i].name)
       /\ ~isJournalAddr(manifest[g][i].name)
       /\ FileAt(g, manifest[g][i].name) # {}

\* C13: convertTableFileToArchive returns the not-enough-chunks condition
\* whenever the source holds fewer than minSamples distinct chunks, a hash the
\* index lists several times counting once.
C13_NotEnoughDistinctChunks ==
  [][(/\ pc = "gather"
      /\ pc' # "gather"
      /\ Cardinality(Range(b.idx)) < minSamples
      /\ ret' # "readError") =>
        /\ pc' = "loop"
        /\ Msg("Not enough chunks. Skipping.", 0) \in progress']_vars

C15_FailedRemoveIsNotFatal ==
  [][(/\ pc = "purge"
      /\ pc' # "purge"
      /\ op = "unarchive" \/ b.purgeFile # NoName
      /\ disk' = disk) =>
        /\ Msg("Failed to purge.", 0) \in progress'
        /\ manifest' = manifest
        /\ HasSpec(manifest'[gen], b.name)
        /\ pc' = "loop"
        /\ fi' = fi + 1
        /\ allFiles' = allFiles
        /\ ret' = "none"]_vars

\* the removal of an archive failed during UnArchive: the .darc is still on
\* disk, the table file is listed, and the call has returned nil
C15_Witness ==
  /\ op = "unarchive"
  /\ pc = "idle"
  /\ ret = "nil"
  /\ Msg("Failed to purge.", 0) \in progress
  /\ \E f \in disk : isArchive(f.name) /\ ~HasSpec(manifest[f.g], f.name)

\* C16: un-archiving an archive built from a source table file yields a table
\* file whose set of chunk hashes is the set of the source's, and the table
\* spec swapped in for it carries the archive's chunk count.
C16_UnArchiveRestoresChunkSet ==
  (op = "unarchive" /\ pc \in {"unflush", "unswap", "purge"}) =>
     /\ ~isArchive(b.name)
     /\ Range(b.name.idx) = Range(b.tf.origin)
     /\ b.chkCnt = Len(b.tf.chunks)
     /\ pc = "purge" =>
          /\ FileAt(gen, b.name) # {}
          /\ \E i \in 1..Len(manifest[gen]) :
               manifest[gen][i] = TableSpec(b.name, Len(b.tf.chunks))

\* an archive built from a table file that lists a hash twice has been
\* un-archived and swapped out
C16_Witness ==
  /\ op = "unarchive"
  /\ pc = "purge"
  /\ Len(b.tf.origin) > Len(b.name.idx)
  /\ Len(b.name.idx) > 1

\* C17: when swapTables fails because the manifest moved after the specs
\* were read, the engine reads the specs again and retries the swap: the
\* container's loop does not return on a lost compare-and-swap.
C17_SwapRetriesOnConflict ==
  [][(pc \in {"swap", "unswap"} /\ manifest' = manifest) =>
        \/ pc' = pc
        \/ ret' = "swapError"]_vars

\* C18: the dictionary spans of the groups are written in non-increasing
\* order of the groups' totalBytesSavedWDict, and when the parallel pass over
\* the ungrouped chunks starts every group that pays is fully written: its
\* dictionary span and all its chunks are in the archive, staged before any
\* chunk under the default dictionary, and none of them is left to the pass.
C18_GroupsBestFirstBeforePass ==
  (op = "archive" /\ pc \in {"matgroups", "workers", "egwait", "finalize"}) =>
     /\ \A i, j \in 1..Len(b.cgList) :
          \A n \in DictSpanIds(arcW, b.cgList[i]), m \in DictSpanIds(arcW, b.cgList[j]) :
            n < m => b.cgList[i].totalBytesSavedWDict >= b.cgList[j].totalBytesSavedWDict
     /\ pc # "matgroups" =>
          /\ \A i \in 1..Len(b.cgList) :
               GroupPays(b.cgList[i]) =>
                 /\ DictSpanIds(arcW, b.cgList[i]) # {}
                 /\ \A k \in 1..Len(b.cgList[i].chks) :
                      /\ b.cgList[i].chks[k].chunkId \notin b.allChunks
                      /\ \E n \in 1..Len(arcW.staged) :
                           /\ arcW.staged[n].h = b.cgList[i].chks[k].chunkId
                           /\ arcW.staged[n].dict \in DictSpanIds(arcW, b.cgList[i])
          /\ \A n, m \in 1..Len(arcW.staged) :
               (arcW.staged[n].dict # b.defaultSpanId /\ arcW.staged[m].dict = b.defaultSpanId)
                 => n < m
          /\ (pc = "workers" /\ PassFresh) =>
               /\ Len(arcW.staged) = b.grouped
               /\ par.left = b.allChunks

\* two groups of different savings have both been written and the pass is over
C18_Witness ==
  /\ op = "archive"
  /\ pc = "finalize"
  /\ \E i, j \in 1..Len(b.cgList) :
       /\ DictSpanIds(arcW, b.cgList[i]) # {}
       /\ DictSpanIds(arcW, b.cgList[j]) # {}
       /\ b.cgList[i].totalBytesSavedWDict > b.cgList[j].totalBytesSavedWDict

\* C19: within a group that is written, the chunks are staged in descending
\* order of the bytes the group dictionary saves on each: a chunk staged
\* before another of the same group saves at least as many bytes (raw size
\* minus size compressed with the group dictionary).
C19_ChunksStagedByBytesSaved ==
  (op = "archive" /\ pc \in {"matgroups", "workers", "egwait", "finalize"}) =>
     \A n, m \in 1..Len(arcW.staged) :
       (/\ n < m
        /\ arcW.staged[n].dict = arcW.staged[m].dict
        /\ arcW.staged[n].dict # b.defaultSpanId) =>
          sz.raw[arcW.staged[n].h] - sz.grp[arcW.staged[n].h]
            >= sz.raw[arcW.staged[m].h] - sz.grp[arcW.staged[m].h]

\* C20: after any sequence of ChunkRelations.Add calls the groups are the
\* connected components of the pairs added, every hash of a group points to
\* the one set that holds its group, and Contains holds exactly for the hashes
\* that appeared in an Add; the groups depend on the set of pairs only, not on
\* the order of the calls nor on the order of the two arguments.
C20_GroupsAreComponents ==
  /\ groups(cr) = Components(added)
  /\ dagGroups = Components(added)
  /\ \A h \in Hashes : Contains(cr, h) <=> h \in UNION added
  /\ Count(cr) = Cardinality(UNION added)
  /\ \A h \in Hashes :
       Contains(cr, h) =>
         /\ h \in cr.heap[cr.manyToGroup[h]]
         /\ \A k \in cr.heap[cr.manyToGroup[h]] : cr.manyToGroup[k] = cr.manyToGroup[h]

\* two groups of two hashes each have been merged into one by a third Add
C20_Witness ==
  /\ Cardinality(added) = 3
  /\ \A p \in added : Cardinality(p) = 2
  /\ groups(cr) = {Hashes}
  /\ \E p, q \in added : p \cap q = {}

\* C21: after any sequence of Add calls every key of manyToGroup maps to a
\* set that holds the key, every member of a mapped set maps to that very
\* set, and groups() yields each set once: the groups are pairwise disjoint
\* and their union is the set of the known hashes.
C21_GroupsPartitionKnownHashes ==
  LET keys == {h \in Hashes : Contains(cr, h)}
      live == {cr.manyToGroup[h] : h \in keys}
  IN /\ \A h \in keys : h \in cr.heap[cr.manyToGroup[h]]
     /\ \A c \in live : \A k \in cr.heap[c] : cr.manyToGroup[k] = c
     /\ Cardinality(groups(cr)) = Cardinality(live)
     /\ \A g1, g2 \in groups(cr) : g1 # g2 => g1 \cap g2 = {}
     /\ UNION groups(cr) = keys
     /\ dagGroups = groups(cr)

\* two groups are known, one of them the result of a merge (its set is in the
\* third cell, the two sets it was merged from are gone)
C21_Witness ==
  /\ Cardinality(groups(cr)) = 2
  /\ \E h \in Hashes : cr.manyToGroup[h] = 3
  /\ \A c \in Cells : c > 3 => cr.heap[c] = {}

\* C22: simpleChunkSourceCache.get of a hash the source does not hold returns
\* no chunk and leaves the cache as it is; of a hash the source holds it
\* returns the source's bytes, on a hit and on a miss alike; and whatever gets
\* were made, every cached entry is what the source returns for its key.
C22_CacheAgreesWithSource ==
  (op = "archive" /\ b.idx # <<>>) =>
     /\ \A e \in b.cache : e.chk # Nil /\ e.chk = SourceGet(b.idx, e.h)
     /\ \A e1, e2 \in b.cache : e1.h = e2.h => e1 = e2
     /\ \A h \in Hashes :
          LET r == get(b.cache, b.idx, h)
          IN /\ r.chk = SourceGet(b.idx, h)
             /\ r.chk = CacheGet(b.idx, h)
             /\ h \notin Range(b.idx) => r.chk = Nil /\ r.cache = b.cache
             /\ h \in Range(b.idx) => [h |-> h, chk |-> SourceGet(b.idx, h)] \in r.cache
             /\ b.cache \subseteq r.cache

\* the relations name a hash the source does not hold, the groups have been
\* built through the cache, which holds one of the source's chunks and not
\* yet another
C22_Witness ==
  /\ op = "archive"
  /\ pc = "workers"
  /\ \E g \in dagGroups : \E h \in g : h \notin Range(b.idx)
  /\ \E h1, h2 \in Range(b.idx) :
       /\ \E e \in b.cache : e.h = h1
       /\ \A e \in b.cache : e.h # h2

\* C23: the writer steps of one archive occur in the mandatory order: byte
\* spans are written and chunks staged only before finalizeByteSpans, which is
\* followed in this order by writeIndex, writeMetadata, writeFooter,
\* genFileName and flushToFile; a step that fails ends the build, and no later
\* step runs: the writer is dropped and no file is written.
C23_WriterStepsInOrder ==
  [][/\ (arcW'.spans # arcW.spans \/ arcW'.staged # arcW.staged) =>
          \/ arcW' = W0
          \/ arcW'.stage = "spans" /\ arcW.stage \in {"none", "spans"}
     /\ arcW'.stage # arcW.stage =>
          \/ arcW' = W0
          \/ <<arcW.stage, arcW'.stage>> \in
               {<<"none", "spans">>, <<"spans", "finalized">>, <<"finalized", "indexed">>,
                <<"indexed", "metadata">>, <<"metadata", "footer">>, <<"footer", "named">>,
                <<"named", "flushed">>}
     /\ (op = "archive" /\ \E f \in disk' : \A f2 \in disk : ~(f2.g = f.g /\ f2.name = f.name)) =>
          arcW.stage = "named" /\ arcW'.stage = "flushed"
     /\ (pc \in {"defspan", "matgroups", "workers", "egwait", "finalize"} /\ pc' = "idle") =>
          /\ ret' \notin {"none", "nil"}
          /\ arcW' = W0
          /\ disk' = disk]_vars

\* an archive with a group dictionary, group chunks and ungrouped chunks has
\* gone through every writer step and is flushed
C23_Witness ==
  /\ op = "archive"
  /\ pc = "count"
  /\ arcW.stage = "flushed"
  /\ b.grouped > 0
  /\ b.singles > 0
  /\ FileAt(gen, b.name) # {}

\* C24: at every point of a build each staged index entry names two span ids
\* the writer has already given out, the dictionary span written before the
\* data span, which holds the entry's chunk compressed with that dictionary;
\* the default dictionary span is the first span of the archive and is the
\* dictionary span of every chunk staged by the ungrouped pass, and a chunk
\* staged by group materialization names the dictionary span of its own group.
C24_StagedEntriesNameWrittenSpans ==
  (op = "archive" /\ arcW.stage # "none") =>
     LET paying == {i \in 1..Len(b.cgList) : GroupPays(b.cgList[i])}
         ofGroup(i) == {b.cgList[i].chks[k].chunkId : k \in 1..Len(b.cgList[i].chks)}
     IN /\ b.defaultSpanId = 1
        /\ arcW.spans[1] = CompressDictionary(b.defaultDict)
        /\ \A n \in 1..Len(arcW.staged) :
             LET e == arcW.staged[n] IN
             /\ e.dict \in 1..Len(arcW.spans)
             /\ e.data \in 1..Len(arcW.spans)
             /\ e.dict < e.data
             /\ arcW.spans[e.dict].t = "dict"
             /\ arcW.spans[e.data] = CompressDict(e.h, arcW.spans[e.dict].d)
             /\ \A i \in paying : e.h \in ofGroup(i) => e.dict \in DictSpanIds(arcW, b.cgList[i])
             /\ (\A i \in paying : e.h \notin ofGroup(i)) => e.dict = b.defaultSpanId

\* the data is written of an archive with a chunk staged by a group and a
\* chunk staged by the drain, the group's dictionary span lying between the
\* default dictionary span and the drain's data span
C24_Witness ==
  /\ op = "archive"
  /\ pc = "finalize"
  /\ \E n, m \in 1..Len(arcW.staged) :
       /\ arcW.staged[n].dict > 1
       /\ arcW.staged[m].dict = 1
       /\ arcW.staged[m].data > arcW.staged[n].dict

\* C25: while the parallel pass runs, the archive writer is used by the drain
\* goroutine only: every step that changes the writer is the drain taking one
\* result off resultCh, writing one span and staging one entry; no worker and
\* not the distributor moves in that step.
C25_DrainIsTheOnlyWriter ==
  [][(pc \in {"workers", "egwait"} /\ pc' # "idle" /\ arcW' # arcW) =>
        /\ par.drain = "run"
        /\ par'.drain = "run"
        /\ par.resultCh # <<>>
        /\ par'.resultCh = Tail(par.resultCh)
        /\ par'.w = par.w
        /\ par'.wv = par.wv
        /\ par'.dist = par.dist
        /\ par'.workCh = par.workCh
        /\ par'.left = par.left
        /\ arcW'.spans = Append(arcW.spans, Head(par.resultCh).data)
        /\ Len(arcW'.staged) = Len(arcW.staged) + 1
        /\ arcW'.staged[Len(arcW'.staged)].h = Head(par.resultCh).h
        /\ arcW'.stage = arcW.stage]_vars

\* the drain has staged a chunk while one worker holds a compressed chunk to
\* send and the distributor still has hashes to hand out
C25_Witness ==
  /\ pc = "workers"
  /\ par.drain = "run"
  /\ \E n \in 1..Len(arcW.staged) : arcW.staged[n].dict = b.defaultSpanId
  /\ \E i \in 1..workerCount : par.w[i] = "send"
  /\ par.dist = "run"
  /\ par.left # {}

\* C26: with a consumer that receives every progress message,
\* compressChunksInParallel terminates in every interleaving: once the pass
\* has started the call returns; it returns to the caller's next step when no
\* goroutine failed, and otherwise every goroutine has exited and the call
\* returns the first error of the group.
C26_PassTerminates ==
  /\ (pc = "workers") ~> (pc \notin {"workers", "egwait"})
  /\ [][(pc = "egwait" /\ pc' # "egwait") =>
           /\ par.dist = "done"
           /\ par.drain = "done"
           /\ \A i \in 1..workerCount : par.w[i] = "done"
           /\ IF par.err = "nil" THEN pc' = "finalize" /\ ret' = "none"
              ELSE pc' = "idle" /\ ret' = par.err]_vars

\* the drain failed to write, the distributor left on ctx.Done without closing
\* workCh, and every goroutine has exited
C26_Witness ==
  /\ pc = "egwait"
  /\ par.err = "writeError"
  /\ par.dist = "done"
  /\ par.drain = "done"
  /\ ~par.workClosed
  /\ \A i \in 1..workerCount : par.w[i] = "done"

\* C27: the address of the archive built from a source, its relations and its
\* default dictionary does not depend on the scheduling of the workers nor on
\* the order in which results reach the drain: it is the address of the build
\* in which the drain receives the ungrouped chunks in the order of their
\* hashes (the metadata holds the origin only, the timestamp is left out).
C27_AddressIndependentOfSchedule ==
  (op = "archive" /\ pc = "count") =>
     b.name = ArchiveName(DrainInOrder(WriterBeforePass(arcW, b.grouped),
                                       SortedSeq(b.allChunks), b.defaultDict,
                                       b.defaultSpanId),
                          b.tf, b.defaultDict)

\* C28: BuildArchive and UnArchive called with a chunk store that is not a
\* GenerationalNBS return the error "runtime error: GenerationalNBS Expected"
\* and do nothing else: no table file list is read, no container is built,
\* the manifest and the files stay as they are.
C28_GenerationalExpected ==
  [][~isGen =>
       /\ manifest' = manifest
       /\ disk' = disk
       /\ progress' = {}
       /\ allFiles' = <<>>
       /\ b' = B0
       /\ arcW' = W0
       /\ pc' \in {"idle", "begin"}
       /\ (pc = "begin" /\ pc' # "begin") =>
            ret' = "runtime error: GenerationalNBS Expected"]_vars

\* UnArchive has returned the error for a store of another type
C28_Witness ==
  /\ ~isGen
  /\ op = "unarchive"
  /\ pc = "idle"
  /\ ret = "runtime error: GenerationalNBS Expected"
  /\ \E g \in Gens : \E i \in 1..Len(manifest[g]) : ~isJournalAddr(manifest[g][i].name)

\* C29: UnArchive leaves the manifest entry and the file of every container
\* that is no archive, the journal among them, as they are; BuildArchive
\* leaves the entry and the file of every container that already is an
\* archive, and of the journal, as they are; while no table file is under
\* conversion, BuildArchive on a store whose containers are all archives
\* changes neither the manifest nor the disk.
C29_SkippedContainersUntouched ==
  [][/\ op = "unarchive" =>
          \A g \in Gens :
            /\ \A i \in 1..Len(manifest[g]) :
                 ~isArchive(manifest[g][i].name) =>
                    /\ i <= Len(manifest'[g])
                    /\ manifest'[g][i] = manifest[g][i]
            /\ \A f \in disk :
                 (f.g = g /\ ~isArchive(f.name) /\ HasSpec(manifest[g], f.name)) => f \in disk'
     /\ op = "archive" =>
          \A g \in Gens :
            /\ \A i \in 1..Len(manifest[g]) :
                 (isArchive(manifest[g][i].name) \/ isJournalAddr(manifest[g][i].name)) =>
                    /\ i <= Len(manifest'[g])
                    /\ manifest'[g][i] = manifest[g][i]
            /\ \A f \in disk :
                 (f.g = g /\ isArchive(f.name) /\ HasSpec(manifest[g], f.name)) => f \in disk'
     /\ (/\ op = "archive"
         /\ b.tf.k = "none"
         /\ \A g \in Gens : \A i \in 1..Len(manifest[g]) :
              isArchive(manifest[g][i].name) \/ isJournalAddr(manifest[g][i].name)) =>
          manifest' = manifest /\ disk' = disk]_vars

\* a second BuildArchive has run over a store whose containers were all
\* archives already, and returned nil without announcing any table file
C29_Witness ==
  /\ op = "archive"
  /\ runs = 2
  /\ pc = "idle"
  /\ ret = "nil"
  /\ progress = {}
  /\ \E g \in Gens : \E i \in 1..Len(manifest[g]) : isArchive(manifest[g][i].name)
  /\ \A g \in Gens : \A i \in 1..Len(manifest[g]) :
       isArchive(manifest[g][i].name) \/ isJournalAddr(manifest[g][i].name)

\* C30: while BuildArchive runs, a listed container that is neither the
\* journal nor an archive and has at least minSamples index entries keeps its
\* manifest entry or has it replaced, in place, by the archive built from its
\* index; when BuildArchive returns nil, no such container is listed in the
\* new-gen or the old-gen manifest any more.
C30_ArchivedWhenBuildReturnsNil ==
  [][/\ (op = "archive" /\ pc # "idle") =>
          \A g \in Gens : \A i \in 1..Len(manifest[g]) :
            LET n == manifest[g][i].name IN
            (~isJournalAddr(n) /\ ~isArchive(n) /\ Len(n.idx) >= minSamples) =>
               /\ i <= Len(manifest'[g])
               /\ \/ manifest'[g][i].name = n
                  \/ /\ isArchive(manifest'[g][i].name)
                     /\ manifest'[g][i].name.origin = n.idx
     /\ (op = "archive" /\ pc # "idle" /\ pc' = "idle" /\ ret' = "nil") =>
          \A g \in Gens : \A i \in 1..Len(manifest'[g]) :
            LET n == manifest'[g][i].name IN
            isJournalAddr(n) \/ isArchive(n) \/ Len(n.idx) < minSamples]_vars

\* a first BuildArchive has returned nil: both generations list an archive
\* built from at least minSamples entries
C30_Witness ==
  /\ op = "archive"
  /\ runs = 1
  /\ pc = "idle"
  /\ ret = "nil"
  /\ \A g \in Gens : \E i \in 1..Len(manifest[g]) :
       /\ isArchive(manifest[g][i].name)
       /\ Len(manifest[g][i].name.origin) >= minSamples

\* C31: verifyAllChunks on a reader that opened goes on to the swap exactly
\* when has(h) holds, get(h) is not nil and the hash of get(h) is h for every
\* entry of the source index, duplicates included; otherwise it returns the
\* error at the first hash of the shuffled list that fails: it has reported
\* fewer hashes than the index has entries, and no more than verify.
C31_VerifySucceedsIffEveryEntryReadsBack ==
  [][(pc = "verify" /\ pc' # "verify") =>
        \E f \in FileAt(gen, b.name) :
          LET good == {i \in 1..Len(b.idx) :
                         /\ ReaderHas(f, b.idx[i])
                         /\ ReaderGet(f, b.idx[i]) # Nil
                         /\ HashOf(ReaderGet(f, b.idx[i])) = b.idx[i]}
          IN /\ pc' = "swap" => /\ good = 1..Len(b.idx)
                                /\ progress' = progress \cup VerifyMsgs(Len(b.idx))
             /\ (pc' # "swap" /\ ret' # "readError") =>
                   /\ ret' = "verifyError"
                   /\ good # 1..Len(b.idx)
                   /\ \E k \in 0..Cardinality(good) :
                        /\ k < Len(b.idx)
                        /\ progress' = progress \cup VerifyMsgs(k)
             /\ good = 1..Len(b.idx) => (pc' = "swap" \/ ret' = "readError")]_vars

\* verifyAllChunks has returned its error after it had verified one hash of an
\* index of two or more entries
C31_Witness ==
  /\ op = "archive"
  /\ pc = "idle"
  /\ ret = "verifyError"
  /\ Msg("Verifying Chunks", 1) \in progress
  /\ Msg("Verifying Chunks", 2) \notin progress

\* C32: the list padSamples returns has at least padMin samples and is made
\* of whole copies of the list it was given, so that every chunk of the input
\* occurs the same number of times, with no copy more than needed to reach
\* padMin; a list of padMin or more chunks is returned as it is.
C32_PadSamplesWholeCopies ==
  pc = "padded" =>
     /\ Len(padOut) >= padMin
     /\ \E k \in 1..padMin :
          /\ Len(padOut) = k * Len(padIn)
          /\ (k - 1) * Len(padIn) < padMin
          /\ \A j \in 1..Len(padOut) : padOut[j] = padIn[((j - 1) % Len(padIn)) + 1]
          /\ \A i \in 1..Len(padIn) :
               Cardinality({j \in 1..Len(padOut) : (j - 1) % Len(padIn) = i - 1}) = k
     /\ Len(padIn) >= padMin => padOut = padIn

\* padSamples has returned four copies of a list of two different chunks
C32_Witness ==
  /\ pc = "padded"
  /\ Len(padIn) = 2
  /\ padIn[1] # padIn[2]
  /\ Len(padOut) = 8

C34_CompareReportsSetDifference ==
  cmp.st = "done" =>
     LET A == cmp.hashes[1]
         B == cmp.hashes[2]
         dir(c) == IF cmp.has[c]["oldgen"] # {} THEN "oldgen" ELSE "noms"
     IN /\ \A c \in 1..2 :
             /\ cmp.has[c][dir(c)] # {}
             /\ "table" \in cmp.has[c][dir(c)] =>
                   (cmp.kind[c] = "table" /\ cmp.hashes[c] = Range(cmp.tbl[c]))
             /\ cmp.has[c][dir(c)] = {"darc"} =>
                   (cmp.kind[c] = "archive" /\ cmp.hashes[c] = Range(cmp.darc[c]))
        /\ cmp.common = Cardinality(A \cap B)
        /\ cmp.onlyIn1 = Cardinality(A \ B)
        /\ cmp.onlyIn2 = Cardinality(B \ A)
        /\ cmp.match <=> (A = B)

\* a table file and an archive were compared, each has a hash the other has
\* not, and no match was reported
C34_Witness ==
  /\ cmp.st = "done"
  /\ cmp.kind[1] = "table"
  /\ cmp.kind[2] = "archive"
  /\ cmp.common = 1
  /\ cmp.onlyIn1 = 1
  /\ cmp.onlyIn2 = 1
  /\ ~cmp.match

\* C35: no hash is staged twice in one archive.  While the groups are
\* materialized no staged hash is left in the ungrouped set; during the pass
\* the hashes not yet sent, those on workCh, those a worker holds, those on
\* resultCh and those staged are pairwise disjoint, none occurs twice on a
\* channel or with two workers, and all of them are hashes of the source.
C35_NoHashStagedTwice ==
  op = "archive" =>
     LET stagedH == {arcW.staged[i].h : i \in 1..Len(arcW.staged)}
         inWork == Range(par.workCh)
         holders == {i \in 1..workerCount : par.w[i] = "send"}
         held == {par.wv[i] : i \in holders}
         inRes == {par.resultCh[i].h : i \in 1..Len(par.resultCh)}
     IN /\ Cardinality(stagedH) = Len(arcW.staged)
        /\ pc = "matgroups" => stagedH \cap b.allChunks = {}
        /\ pc \in {"workers", "egwait"} =>
             /\ Cardinality(inWork) = Len(par.workCh)
             /\ Cardinality(inRes) = Len(par.resultCh)
             /\ Cardinality(held) = Cardinality(holders)
             /\ Cardinality(par.left \cup inWork \cup held \cup inRes \cup stagedH)
                  = Cardinality(par.left) + Cardinality(inWork) + Cardinality(held)
                    + Cardinality(inRes) + Cardinality(stagedH)
             /\ (par.left \cup inWork \cup held \cup inRes \cup stagedH) \subseteq Range(b.idx)

\* the pass is under way after a group was materialized: the grouped chunks
\* are staged and a worker holds an ungrouped chunk
C35_Witness ==
  /\ op = "archive"
  /\ pc = "workers"
  /\ b.grouped > 0
  /\ Len(arcW.staged) = b.grouped
  /\ \E i \in 1..workerCount : par.w[i] = "send"

\* C36: building a chunk group terminates for every relation group of size
\* > 1 and every source container: convertToChunkGroups is never inside
\* newChunkGroup with padSamples looping over an empty sample list, the loop
\* that no turn brings nearer to padMin samples.
C36_ChunkGroupBuildTerminates ==
  pc # "hung"

\* C37: every hash staged into an archive is a hash of the source index.  A
\* hash of a relation group that the source does not hold is in no chunk
\* group, is not staged and not counted as grouped, and the ungrouped set is
\* the source's hashes without the staged ones, as if the hash were in no
\* relation.
C37_OnlySourceHashesStaged ==
  op = "archive" =>
     LET stagedH == {arcW.staged[i].h : i \in 1..Len(arcW.staged)}
     IN /\ stagedH \subseteq Range(b.idx)
        /\ \A n \in 1..Len(b.cgList) : \A j \in 1..Len(b.cgList[n].chks) :
             b.cgList[n].chks[j].chunkId \in Range(b.idx)
        /\ b.grouped <= Cardinality(Range(b.idx) \cap UNION dagGroups)
        /\ pc = "matgroups" =>
             /\ stagedH \subseteq UNION dagGroups
             /\ b.grouped = Cardinality(stagedH)
             /\ b.allChunks = Range(b.idx) \ stagedH

\* a group with a hash the source does not hold has been materialized from
\* the hashes the source holds
C37_Witness ==
  /\ op = "archive"
  /\ pc = "workers"
  /\ b.grouped > 0
  /\ \E g \in dagGroups :
       /\ g \ Range(b.idx) # {}
       /\ \E i \in 1..Len(arcW.staged) : arcW.staged[i].h \in g

\* C38: in every state of BuildArchive and UnArchive each container the
\* manifest lists, the journal aside, has its file on disk.
C38_ListedContainersHaveFiles ==
  \A g \in Gens : \A i \in 1..Len(manifest[g]) :
    ~isJournalAddr(manifest[g][i].name) => FileAt(g, manifest[g][i].name) # {}

\* un-archive has converted an archive of its file list: the archive's file
\* is removed and its address is not listed any more, and the table file
\* listed in its place is on disk
C38_Witness ==
  /\ op = "unarchive"
  /\ pc = "loop"
  /\ \E j \in 1..(fi - 1) :
       /\ isArchive(allFiles[j])
       /\ FileAt(gen, allFiles[j]) = {}
       /\ ~HasSpec(manifest[gen], allFiles[j])
  /\ \E i \in 1..Len(manifest[gen]) :
       /\ manifest[gen][i].name.k = "tf"
       /\ FileAt(gen, manifest[gen][i].name) # {}

\* C39: the old-gen store is processed whatever the outcome of the new-gen
\* store: when BuildArchive or UnArchive returns from a generational store
\* whose old-gen manifest lists a container to convert, with a context that
\* was not cancelled, it returns from the loop over the old-gen containers.
C39_OldGenProcessedWhateverNewGenDid ==
  [][(/\ op \in {"archive", "unarchive"}
      /\ isGen
      /\ ~cancelled
      /\ \E i \in 1..Len(manifest["oldGen"]) :
           LET n == manifest["oldGen"][i].name
           IN IF op = "archive" THEN n.k = "tf" /\ Len(n.idx) >= minSamples
                                ELSE isArchive(n)
      /\ pc # "idle"
      /\ pc' = "idle") => gen = "oldGen"]_vars

\* C40, as claimed: once the context is cancelled IterateAllChunksFast does
\* not call the callback again, and what it returns is the context's error.
C40_CancelledReturnsCtxError ==
  [][(it.st = "run" /\ cancelled) =>
        /\ it'.calls = it.calls
        /\ it'.st = "returned" => it'.err = "ctxError"]_vars

\* C40, amended: the callback is called once per index entry, in index order,
\* with the entry's hash and the chunk read for it, a hash listed twice being
\* visited twice; nil is returned after the last entry; an index or read
\* error is returned without a call for its entry and a callback error after
\* that call, and no later entry is visited; a context found cancelled at the
\* top of an iteration ends the loop with the context's error and without a
\* further call.
C40_IterateVisitsIndexInOrder ==
  [][/\ \A j \in 1..Len(it'.calls) :
          it'.calls[j] = [h |-> it'.idx[j], chunk |-> SourceGet(it'.idx, it'.idx[j])]
     /\ it'.st = "returned" =>
          /\ it'.err = "nil" => Len(it'.calls) = Len(it'.idx)
          /\ it'.err \in {"indexError", "readError", "ctxError"} =>
               Len(it'.calls) = it'.i /\ it'.i < Len(it'.idx)
          /\ it'.err = "cbError" => Len(it'.calls) = it'.i + 1
     /\ it.st = "returned" => it' = it
     /\ (it.st = "run" /\ it.ph = "top" /\ it.i < Len(it.idx) /\ cancelled /\ it' # it) =>
          /\ it'.st = "returned"
          /\ it'.err = "ctxError"
          /\ it'.calls = it.calls]_vars

\* the context was found cancelled after a hash listed twice had been visited
\* twice, and the third entry was not visited
C40_Witness ==
  /\ it.st = "returned"
  /\ it.err = "ctxError"
  /\ Len(it.idx) = 3
  /\ it.idx[1] = it.idx[2]
  /\ Len(it.calls) = 2
  /\ it.calls[1] = it.calls[2]

====
